---- MODULE Spec2Model ----
(***************************************************************************)
(* Model of the model catalog (replicate-models.service) and of the        *)
(* requirement scorer (model-filter.service) of the image agent backend.   *)
(*                                                                         *)
(* Part 1: ReplicateModelsService, its cache with a one hour TTL, the      *)
(* live refresh through the collections endpoint and the built-in fallback *)
(* list.  getImageModels is an async function with one await: the part     *)
(* before the await and the part after it are one action each, and the     *)
(* event loop interleaves the calls of concurrent requests at the await.   *)
(*                                                                         *)
(* Part 2: scoreModel and filterAndScoreModels, pure functions of the      *)
(* summaries catalog, the requirements object and the limit.               *)
(*                                                                         *)
(* Part 3: extractSimplifiedSchema and the two detectCapabilities, pure    *)
(* functions of the Input schema of one collection entry.                  *)
(*                                                                         *)
(* Part 4: the tool executor (search-models, generate-image) and the       *)
(* generateImage path of the catalog service, with the lookups each of     *)
(* them makes through getImageModels.                                      *)
(*                                                                         *)
(* Part 5: the Gemini orchestrator: safety check, prompt refinement and    *)
(* the tool loop of the generation agent.                                  *)
(***************************************************************************)
EXTENDS Integers, Sequences, FiniteSets, TLC

(***************************************************************************)
(* Bounds of the model.                                                    *)
(***************************************************************************)
NumCalls == 2       \* concurrent getImageModels calls (requests in progress)
MaxPeriods == 1     \* the clock runs up to MaxPeriods TTL periods

(***************************************************************************)
(* JavaScript strings: toLowerCase and includes.                           *)
(***************************************************************************)
UpperChars == "ABCDEFGHIJKLMNOPQRSTUVWXYZ"
LowerChars == "abcdefghijklmnopqrstuvwxyz"

upperSet == { SubSeq(UpperChars, i, i) : i \in 1..Len(UpperChars) }
lowerOf ==
    [c \in upperSet |->
        LET i == CHOOSE k \in 1..Len(UpperChars) : SubSeq(UpperChars, k, k) = c
        IN  SubSeq(LowerChars, i, i)]

lowerChar(c) == IF c \in upperSet THEN lowerOf[c] ELSE c

\* Character by character; the string is halved to keep the nesting shallow.
RECURSIVE toLowerCase(_)
toLowerCase(s) ==
    IF Len(s) = 0 THEN ""
    ELSE IF Len(s) = 1 THEN lowerChar(s)
    ELSE LET half == Len(s) \div 2
         IN  toLowerCase(SubSeq(s, 1, half)) \o toLowerCase(SubSeq(s, half + 1, Len(s)))

\* String.prototype.includes: sub occurs in s as a contiguous substring.
includes(s, sub) ==
    \E i \in 1..(Len(s) - Len(sub) + 1) : SubSeq(s, i, i + Len(sub) - 1) = sub

\* Array.prototype.includes / some over a sequence; Array.prototype.filter
\* is SelectSeq.
arrayIncludes(arr, x) == \E i \in 1..Len(arr) : arr[i] = x

(***************************************************************************)
(* The service's constants.                                                *)
(***************************************************************************)
CacheTtl == 3600000     \* modelsCache.ttl, milliseconds

\* modelsCache.data is null (no list stored) or a list: the empty tuple
\* stands for null and << list >> for a stored list.
Null == << >>
stored(list) == << list >>
listOf(data) == data[1]

(***************************************************************************)
(* isImageGenerationModel: keyword allow and deny lists over the name, the *)
(* description and the tags of a raw collection entry.                     *)
(***************************************************************************)
imageKeywords ==
    << "image", "text-to-image", "generation", "diffusion", "flux",
       "stable-diffusion", "sdxl", "dalle", "midjourney", "art", "picture", "photo" >>

excludeKeywords ==
    << "upscale", "super-resolution", "video", "audio", "music", "speech",
       "text-only", "captioning", "detection", "segmentation", "classification",
       "face-swap" >>

lowerTags(tags) == [i \in 1..Len(tags) |-> toLowerCase(tags[i])]

hasKeyword(model, keywords) ==
    LET name == toLowerCase(model.name)
        description == toLowerCase(model.description)
        tags == lowerTags(model.tags)
    IN  \E k \in 1..Len(keywords) :
            \/ includes(name, keywords[k])
            \/ includes(description, keywords[k])
            \/ arrayIncludes(tags, keywords[k])

isImageGenerationModel(model) ==
    IF hasKeyword(model, excludeKeywords) THEN FALSE
    ELSE hasKeyword(model, imageKeywords)

(***************************************************************************)
(* extractSimplifiedSchema and the classifiers that read its result.       *)
(*                                                                         *)
(* model.latest_version is [kind |-> "null"], [kind |-> "noInput"] (no     *)
(* openapi_schema...Input) or [kind |-> "input", properties, required].    *)
(* properties is << >> when Input has none and << entries >> otherwise,    *)
(* the entries in the order of Object.entries; a property value is         *)
(* [kind |-> "null"], [kind |-> "primitive"] (a value without fields) or   *)
(* an object with some of type, description, format, enum, default, allOf. *)
(***************************************************************************)
has(object, field) == field \in DOMAIN object

propertiesOf(schema) == IF schema.kind = "input" THEN schema.properties ELSE << >>

\* ...Input?.required || []
requiredOf(schema) ==
    IF schema.kind = "input" THEN schema.required ELSE [kind |-> "absent"]

propertyNames(schema) ==
    IF propertiesOf(schema) = << >> THEN {}
    ELSE { propertiesOf(schema)[1][i].key : i \in 1..Len(propertiesOf(schema)[1]) }

\* required.includes(key): Array.prototype.includes, or
\* String.prototype.includes when required is a string.
requiredIncludes(required, key) ==
    CASE required.kind = "array" -> arrayIncludes(required.items, key)
      [] required.kind = "string" -> includes(required.text, key)
      [] OTHER -> FALSE

\* The statements of the loop body that raise a TypeError: a field read on
\* a null value, includes on a required that is neither array nor string,
\* map on an allOf that is not an array.
raisesTypeError(value, required) ==
    \/ value.kind = "null"
    \/ required.kind = "object"
    \/ (has(value, "allOf") /\ ~value.allOf.array)

\* value[field] || fallback
fieldOr(value, field, fallback) ==
    IF has(value, field) /\ value[field] # "" THEN value[field] ELSE fallback

\* value.allOf.map(item => item.type).filter(Boolean)
allOfTypes(value) ==
    LET typed == SelectSeq(value.allOf.items, LAMBDA item : has(item, "type") /\ item.type # "")
    IN  [i \in 1..Len(typed) |-> typed[i].type]

paramType(value) ==
    IF has(value, "allOf") /\ Len(allOfTypes(value)) > 0
    THEN allOfTypes(value)[1]
    ELSE fieldOr(value, "type", "string")

isImageParam(key, value) ==
    \/ includes(toLowerCase(key), "image")
    \/ (has(value, "format") /\ value.format = "uri")
    \/ (fieldOr(value, "description", "") # ""
            /\ includes(toLowerCase(value.description), "image"))

isMaskParam(key, value) ==
    \/ toLowerCase(key) = "mask"
    \/ includes(toLowerCase(key), "mask")
    \/ (fieldOr(value, "description", "") # ""
            /\ includes(toLowerCase(value.description), "mask for inpainting"))

\* A field that is set only under a condition.
fieldIf(condition, field, val) == IF condition THEN field :> val ELSE << >>

paramInfo(key, value, required) ==
    [type |-> paramType(value),
     description |-> fieldOr(value, "description", ""),
     required |-> requiredIncludes(required, key)]
    @@ fieldIf(has(value, "enum"), "options", value.enum)
    @@ fieldIf(has(value, "default"), "default", value.default)
    @@ fieldIf(fieldOr(value, "format", "") # "", "format", value.format)
    @@ fieldIf(isImageParam(key, value), "isImageInput", TRUE)
    @@ fieldIf(isMaskParam(key, value), "isMask", TRUE)
    @@ fieldIf(isMaskParam(key, value), "optionalForReferenceImages", TRUE)

\* The for loop over Object.entries(properties): simplified as built when
\* the loop ended or a statement raised.
RECURSIVE extractEntries(_, _, _)
extractEntries(entries, required, simplified) ==
    IF entries = << >> THEN [simplified |-> simplified, threw |-> FALSE]
    ELSE LET key == Head(entries).key
             value == Head(entries).value
         IN  IF raisesTypeError(value, required)
             THEN [simplified |-> simplified, threw |-> TRUE]
             ELSE extractEntries(Tail(entries), required,
                                 (key :> paramInfo(key, value, required)) @@ simplified)

\* The try block of extractSimplifiedSchema.
extractTry(schema) ==
    IF propertiesOf(schema) = << >> THEN [simplified |-> << >>, threw |-> FALSE]
    ELSE extractEntries(propertiesOf(schema)[1], requiredOf(schema), << >>)

\* Variant: no catch block, the TypeError leaves the function.
extractSimplifiedSchemaNoCatch(schema) ==
    [returned |-> extractTry(schema).simplified, threw |-> extractTry(schema).threw]

\* extractSimplifiedSchema: the catch block logs a warning and the mapping
\* built so far is returned.
extractSimplifiedSchema(schema) ==
    [returned |-> extractTry(schema).simplified, threw |-> FALSE]

\* param[name] as a condition.
flag(param, name) == has(param, name) /\ param[name] = TRUE

\* The image inputs that are not masks.
imageInputs(schema) ==
    { key \in DOMAIN schema : flag(schema[key], "isImageInput") /\ ~flag(schema[key], "isMask") }

\* detectCapabilities of the summaries route, on an extracted schema.
routeDetectCapabilities(schema) ==
    IF DOMAIN schema = {}
    THEN [textToImage |-> TRUE, imageToImage |-> FALSE,
          supportsReferenceImages |-> FALSE, supportedAspectRatios |-> << >>]
    ELSE [textToImage |-> "prompt" \in DOMAIN schema,
          imageToImage |-> imageInputs(schema) # {},
          supportsReferenceImages |-> imageInputs(schema) # {},
          supportedAspectRatios |->
              IF "aspect_ratio" \in DOMAIN schema /\ has(schema["aspect_ratio"], "options")
              THEN schema["aspect_ratio"].options
              ELSE IF "width" \in DOMAIN schema /\ "height" \in DOMAIN schema
              THEN << "custom" >>
              ELSE << "1:1" >>]

\* generateImage: the parameter the reference images are handed to.
referenceField(schema) ==
    IF "image_input" \in DOMAIN schema THEN "image_input"
    ELSE IF "image" \in DOMAIN schema THEN "image"
    ELSE "none"

(***************************************************************************)
(* The Input schemas the extractor and the classifiers are applied to.     *)
(***************************************************************************)
PropPrompt ==
    [key |-> "prompt",
     value |-> [kind |-> "object", type |-> "string", description |-> "Text prompt"]]
PropImage ==
    [key |-> "image",
     value |-> [kind |-> "object", type |-> "string", format |-> "uri",
                description |-> "Input picture"]]
PropImageInput ==
    [key |-> "image_input",
     value |-> [kind |-> "object", type |-> "array", description |-> "Reference pictures"]]
PropImages ==
    [key |-> "images", value |-> [kind |-> "object", type |-> "array"]]
PropMask ==
    [key |-> "mask",
     value |-> [kind |-> "object", type |-> "string", format |-> "uri",
                description |-> "Region to repaint"]]
\* A parameter named image that is described as a mask.
PropMaskNamedImage ==
    [key |-> "image",
     value |-> [kind |-> "object", type |-> "string",
                description |-> "Black and white Mask for Inpainting"]]
PropAspectRatio ==
    [key |-> "aspect_ratio",
     value |-> [kind |-> "object",
                allOf |-> [array |-> TRUE, items |-> << [none |-> TRUE], [type |-> "string"] >>],
                enum |-> << "1:1", "16:9" >>, default |-> "1:1"]]
PropWidth == [key |-> "width", value |-> [kind |-> "object", type |-> "integer"]]
PropHeight == [key |-> "height", value |-> [kind |-> "object", type |-> "integer"]]
PropNull == [key |-> "seed", value |-> [kind |-> "null"]]
PropBadAllOf ==
    [key |-> "steps", value |-> [kind |-> "object", type |-> "integer", allOf |-> [array |-> FALSE]]]
\* An entry of Object.entries over a properties value that is a string.
PropCharacter == [key |-> "0", value |-> [kind |-> "primitive"]]

(***************************************************************************)
(* Aspect ratios: "w:h".split(':').map(Number) and the dimension tables.   *)
(* A number is << n >> and NaN or undefined is << >>; the strings met here *)
(* are runs of decimal digits or not numbers at all.                       *)
(***************************************************************************)
Digits == "0123456789"

isDigit(c) == \E i \in 1..Len(Digits) : SubSeq(Digits, i, i) = c
digitValue(c) == (CHOOSE i \in 1..Len(Digits) : SubSeq(Digits, i, i) = c) - 1

RECURSIVE digitsValue(_)
digitsValue(s) ==
    IF Len(s) = 0 THEN 0
    ELSE 10 * digitsValue(SubSeq(s, 1, Len(s) - 1)) + digitValue(SubSeq(s, Len(s), Len(s)))

\* Number(s): the empty string is 0.
Number(s) ==
    IF \A i \in 1..Len(s) : isDigit(SubSeq(s, i, i)) THEN << digitsValue(s) >> ELSE << >>

\* s.split(':')
RECURSIVE split(_)
split(s) ==
    IF ~includes(s, ":") THEN << s >>
    ELSE LET i == CHOOSE k \in 1..Len(s) :
                      /\ SubSeq(s, k, k) = ":"
                      /\ \A j \in 1..(k - 1) : SubSeq(s, j, j) # ":"
         IN  << SubSeq(s, 1, i - 1) >> \o split(SubSeq(s, i + 1, Len(s)))

\* a > b on numbers; false when either side is NaN or undefined.
greater(a, b) == a # << >> /\ b # << >> /\ a[1] > b[1]

\* Math.round(baseSize * (num / den)) for num >= 0 and den > 0.
roundScaled(baseSize, num, den) == (2 * baseSize * num + den) \div (2 * den)

baseSize == 1024

\* calculateDimensions of the catalog service; the generation service's
\* calculateDimensionsFromAspectRatio has the same body.
calculateDimensions(aspectRatio) ==
    LET parts == split(aspectRatio)
        w == Number(parts[1])
        h == IF Len(parts) >= 2 THEN Number(parts[2]) ELSE << >>
    IN  IF greater(w, h)
        THEN [width |-> baseSize, height |-> roundScaled(baseSize, h[1], w[1])]
        ELSE IF greater(h, w)
        THEN [width |-> roundScaled(baseSize, w[1], h[1]), height |-> baseSize]
        ELSE [width |-> baseSize, height |-> baseSize]

calculateDimensionsFromAspectRatio(aspectRatio) == calculateDimensions(aspectRatio)

defaultRatios ==
    ("1:1" :> [width |-> 1024, height |-> 1024])
    @@ ("16:9" :> [width |-> 1344, height |-> 768])
    @@ ("21:9" :> [width |-> 1536, height |-> 640])
    @@ ("9:16" :> [width |-> 768, height |-> 1344])
    @@ ("4:3" :> [width |-> 1152, height |-> 896])

\* properties[key] of the raw Input schema: << >> when there is none.
rawProperty(schema, key) ==
    IF propertiesOf(schema) = << >> THEN << >>
    ELSE LET entries == SelectSeq(propertiesOf(schema)[1], LAMBDA e : e.key = key)
         IN  IF entries = << >> THEN << >> ELSE << entries[1].value >>

\* A raw property that is present and not null.
truthyProperty(schema, key) ==
    rawProperty(schema, key) # << >> /\ rawProperty(schema, key)[1].kind # "null"

\* getAspectRatiosForModel: the default table, or one entry per value of
\* the aspect_ratio enum.
getAspectRatiosForModel(schema) ==
    IF truthyProperty(schema, "width") /\ truthyProperty(schema, "height")
    THEN defaultRatios
    ELSE IF truthyProperty(schema, "aspect_ratio")
                /\ has(rawProperty(schema, "aspect_ratio")[1], "enum")
    THEN LET enum == rawProperty(schema, "aspect_ratio")[1].enum
         IN  [ratio \in { enum[i] : i \in 1..Len(enum) } |-> calculateDimensions(ratio)]
    ELSE defaultRatios

(***************************************************************************)
(* The built-in list used when the API fails.  Its entries carry no        *)
(* runCount, tags or isOfficial field.  Default values are carried as      *)
(* their text.                                                             *)
(***************************************************************************)
fallbackCapabilities ==
    [supportsSingleReference |-> FALSE,
     supportsMultipleReferences |-> FALSE,
     supportsImageToImage |-> FALSE]

fallbackPrompt ==
    [type |-> "string", description |-> "Text prompt for image generation", required |-> TRUE]

fallbackAspectRatio ==
    [type |-> "string", description |-> "Aspect ratio for the image",
     options |-> << "1:1", "16:9", "21:9", "9:16", "4:3" >>, default |-> "1:1"]

stableDiffusionRatios ==
    ("1:1" :> [width |-> 512, height |-> 512])
    @@ ("16:9" :> [width |-> 768, height |-> 432])
    @@ ("9:16" :> [width |-> 432, height |-> 768])

fallbackModels ==
    << [id |-> "flux-schnell", name |-> "Flux Schnell", owner |-> "black-forest-labs",
        fullName |-> "black-forest-labs/flux-schnell",
        description |-> "Fast image generation with Flux",
        aspectRatios |-> defaultRatios,
        capabilities |-> fallbackCapabilities,
        inputSchema |->
            ("prompt" :> fallbackPrompt)
            @@ ("aspect_ratio" :> fallbackAspectRatio)
            @@ ("num_outputs" :> [type |-> "integer",
                                  description |-> "Number of images to generate",
                                  default |-> "1"])],
       [id |-> "flux-dev", name |-> "Flux Dev", owner |-> "black-forest-labs",
        fullName |-> "black-forest-labs/flux-dev",
        description |-> "High quality image generation with Flux",
        aspectRatios |-> defaultRatios,
        capabilities |-> fallbackCapabilities,
        inputSchema |->
            ("prompt" :> fallbackPrompt)
            @@ ("aspect_ratio" :> fallbackAspectRatio)
            @@ ("guidance_scale" :> [type |-> "number",
                                     description |-> "Guidance scale for generation",
                                     default |-> "3.5"])
            @@ ("num_inference_steps" :> [type |-> "integer",
                                          description |-> "Number of denoising steps",
                                          default |-> "28"])],
       [id |-> "stable-diffusion", name |-> "Stable Diffusion", owner |-> "stability-ai",
        fullName |-> "stability-ai/stable-diffusion",
        description |-> "Classic stable diffusion model",
        aspectRatios |-> stableDiffusionRatios,
        capabilities |-> fallbackCapabilities,
        inputSchema |->
            ("prompt" :> fallbackPrompt)
            @@ ("width" :> [type |-> "integer",
                            description |-> "Width of the generated image",
                            default |-> "512"])
            @@ ("height" :> [type |-> "integer",
                             description |-> "Height of the generated image",
                             default |-> "512"])
            @@ ("negative_prompt" :> [type |-> "string",
                                      description |-> "Negative prompt to avoid certain elements"])] >>

(***************************************************************************)
(* detectCapabilities of the service: it looks only at the Input           *)
(* properties named image and images.  props is the set of property names  *)
(* of latest_version.openapi_schema...Input.properties (empty when the     *)
(* entry has no schema).                                                   *)
(***************************************************************************)
\* Variant: a property named images sets the multiple-reference flag alone.
detectCapabilitiesMultipleAlone(props) ==
    [supportsSingleReference |-> "image" \in props,
     supportsMultipleReferences |-> "images" \in props,
     supportsImageToImage |-> "image" \in props]

detectCapabilities(props) ==
    LET hasImageParam == "image" \in props
        hasImagesParam == "images" \in props
    IN  [supportsSingleReference |-> hasImageParam \/ hasImagesParam,
         supportsMultipleReferences |-> hasImagesParam,
         supportsImageToImage |-> hasImageParam \/ hasImagesParam]

\* The descriptor assembled for one surviving collection entry.
modelData(model) ==
    [id |-> model.name,
     name |-> model.name,
     owner |-> model.owner,
     fullName |-> model.owner \o "/" \o model.name,
     description |-> model.description,
     runCount |-> model.run_count,
     tags |-> model.tags,
     aspectRatios |-> getAspectRatiosForModel(model.latest_version),
     isOfficial |-> model.is_official,
     capabilities |-> detectCapabilities(propertyNames(model.latest_version)),
     inputSchema |-> extractSimplifiedSchema(model.latest_version).returned]

\* imageModels.sort((a, b) => b.runCount - a.runCount): a stable sort,
\* descending by runCount.  Insertion of each element behind every element
\* that does not compare after it.
RECURSIVE insertByRunCount(_, _)
insertByRunCount(sorted, m) ==
    IF sorted = << >> THEN << m >>
    ELSE IF Head(sorted).runCount >= m.runCount
         THEN << Head(sorted) >> \o insertByRunCount(Tail(sorted), m)
         ELSE << m >> \o sorted

RECURSIVE sortByRunCount(_)
sortByRunCount(arr) ==
    IF arr = << >> THEN << >>
    ELSE insertByRunCount(sortByRunCount(SubSeq(arr, 1, Len(arr) - 1)), arr[Len(arr)])

\* Variant: every official entry of the collection is kept.
keepOfficialModel(model) == model.is_official = TRUE

keepOfficialImageModel(model) == model.is_official = TRUE /\ isImageGenerationModel(model)

\* fetchModelsFromAPI, given the collection the endpoint answered with.
fetchModelsFromAPI(response) ==
    LET kept == SelectSeq(response, keepOfficialImageModel)
        imageModels == [i \in 1..Len(kept) |-> modelData(kept[i])]
    IN  sortByRunCount(imageModels)

(***************************************************************************)
(* The collections the live source can answer with (raw entries, owned by  *)
(* the provider).                                                          *)
(***************************************************************************)
\* A latest_version whose Input schema has the given properties and
\* requires the prompt.
inputOf(entries) ==
    [kind |-> "input", properties |-> << entries >>,
     required |-> [kind |-> "array", items |-> << "prompt" >>]]

RawFluxPro ==
    [name |-> "flux-pro", owner |-> "black-forest-labs",
     description |-> "Text-to-image generation", tags |-> << "Flux" >>,
     is_official |-> TRUE, run_count |-> 1000,
     latest_version |-> inputOf(<< PropPrompt, PropAspectRatio >>)]
RawKontext ==
    [name |-> "flux-kontext", owner |-> "black-forest-labs",
     description |-> "Edit an image with a prompt", tags |-> << >>,
     is_official |-> TRUE, run_count |-> 100000,
     latest_version |-> inputOf(<< PropPrompt, PropImage >>)]
RawSdxl ==
    [name |-> "sdxl", owner |-> "stability-ai",
     description |-> "A diffusion model", tags |-> << >>,
     is_official |-> TRUE, run_count |-> 100,
     latest_version |-> inputOf(<< PropPrompt, PropWidth, PropHeight >>)]
RawMulti ==
    [name |-> "nano-art", owner |-> "google",
     description |-> "Blend several pictures", tags |-> << "photo" >>,
     is_official |-> TRUE, run_count |-> 100000,
     latest_version |-> inputOf(<< PropPrompt, PropImages, PropMask >>)]
\* The live flux-dev: it takes an input picture and a ratio from a list.
RawFluxDev ==
    [name |-> "flux-dev", owner |-> "black-forest-labs",
     description |-> "A 12 billion parameter text-to-image model", tags |-> << >>,
     is_official |-> TRUE, run_count |-> 10000,
     latest_version |-> inputOf(<< PropPrompt, PropImage, PropAspectRatio >>)]
RawCommunity ==
    [name |-> "my-flux-lora", owner |-> "someone",
     description |-> "Community image model", tags |-> << >>,
     is_official |-> FALSE, run_count |-> 10000000,
     latest_version |-> inputOf(<< PropPrompt, PropImage >>)]
RawUpscaler ==
    [name |-> "real-esrgan", owner |-> "nightmareai",
     description |-> "Image upscale", tags |-> << "super-resolution" >>,
     is_official |-> TRUE, run_count |-> 1000000,
     latest_version |-> inputOf(<< PropImage >>)]

ApiResponses ==
    { << RawSdxl, RawCommunity, RawKontext, RawUpscaler, RawFluxPro >>,
      << RawFluxPro, RawMulti, RawKontext, RawFluxDev >>,
      << >> }

\* The list fetchModelsFromAPI resolves to, per collection.
fetched == [response \in ApiResponses |-> fetchModelsFromAPI(response)]

(***************************************************************************)
(* State.                                                                  *)
(***************************************************************************)
VARIABLES
    modelsCache,    \* this.modelsCache: [data, fetchedAt, ttl]
    now,            \* Date.now()
    catalogSource,  \* how the collections endpoint behaves in this run
    pc,             \* pc[c]: position of call c of getImageModels
    options,        \* options[c]: {} when referenceImageCount is undefined, else {count}
    fetchCount,     \* fetchCount[c]: fetchModelsFromAPI invocations made by call c
    path,           \* path[c]: where call c took its models from
    ret,            \* ret[c]: the list call c returned
    allModels,      \* loadModelSummaries(): the models of model-summaries.json
    requirements,   \* the requirements object passed to filterAndScoreModels
    limit,          \* the limit passed to filterAndScoreModels
    phase,          \* "ready" before the call of filterAndScoreModels, "returned" after
    scored,         \* its local scored, after the sort
    topModels,      \* the list it returned
    modelSchema,    \* model.latest_version of one collection entry
    schemaPhase,    \* "raw", "catalogued" (descriptor built) or "summarised"
    inputSchema,    \* extractSimplifiedSchema(model.latest_version)
    extractOutcome, \* "none", "returned" or "threw"
    capabilities,   \* detectCapabilities of the catalog service
    summaryCapabilities, \* detectCapabilities of the summaries route
    toolName,       \* the tool being executed, "none" before the request
    toolPc,         \* position of the request in its handler
    toolArgs,       \* the arguments of the request
    validatedModel, \* executeGenerateImage: model, as looked up for the validation
    configModel,    \* generateImage: model, from getModelConfig
    dimensionsModel, \* getDimensions: model, from its own getModelConfig
    replicateRuns,  \* the calls of replicate.run made so far: [model, input]
    toolResult,     \* what the request resolved or rejected with
    orchPc,         \* position of generateWithGeminiOrchestrator at its awaits
    safetyCall,     \* how the safety LLM call of this request goes
    llmCalls,       \* the function calls the agent LLM emits when it emits any
    started,        \* the phases started so far, in the order of their start
    safetyResult,   \* what checkContentSafety returned
    functionCalls,  \* the function calls of the response being processed
    callIndex,      \* position of the for loop in functionCalls
    iterationCount, \* follow-up LLM rounds made by the tool loop
    toolResults,    \* the tool loop's toolResults: [name, success]
    generations,    \* successful runs of executeGenerateImage in this request
    orchResult      \* what the orchestrator resolved or rejected with

catalogVars == << modelsCache, now, catalogSource, pc, options, fetchCount, path, ret >>
scorerVars == << allModels, requirements, limit, phase, scored, topModels >>
schemaVars == << modelSchema, schemaPhase, inputSchema, extractOutcome, capabilities,
                summaryCapabilities >>
toolVars == << toolName, toolPc, toolArgs, validatedModel, configModel, dimensionsModel,
              replicateRuns, toolResult >>
agentVars == << orchPc, safetyCall, llmCalls, started, safetyResult, functionCalls,
               callIndex, iterationCount, toolResults, generations, orchResult >>
vars == << modelsCache, now, catalogSource, pc, options, fetchCount, path, ret,
           allModels, requirements, limit, phase, scored, topModels,
           modelSchema, schemaPhase, inputSchema, extractOutcome, capabilities,
           summaryCapabilities,
           toolName, toolPc, toolArgs, validatedModel, configModel, dimensionsModel,
           replicateRuns, toolResult,
           orchPc, safetyCall, llmCalls, started, safetyResult, functionCalls,
           callIndex, iterationCount, toolResults, generations, orchResult >>

\* A requirements field is << >> when the object has no such field and
\* << value >> when it has.
noRequirements ==
    [needsReferenceImages |-> << >>, minQuality |-> << >>, styleFocus |-> << >>,
     speedPreference |-> << >>, preferredModel |-> << >>, useCase |-> << >>,
     specialNeeds |-> << >>, aspectRatio |-> << >>]

DefaultLimit == 5   \* limit = 5

Calls == 1..NumCalls

\* The endpoint raises on every request ("down"), answers each request
\* with a collection or an error ("flaky"), or never answers ("silent").
SourceModes == {"down", "flaky", "silent"}

\* The values of options.referenceImageCount the callers pass.
ReferenceImageCounts == { {}, {0}, {1}, {2} }

\* The instants the clock is observed at: each multiple of the TTL and the
\* millisecond before it.
Instants ==
    { t \in { k * CacheTtl + e : k \in 0..MaxPeriods, e \in {-1, 0} } : t >= 0 }

emptyCache == [data |-> Null, fetchedAt |-> 0, ttl |-> CacheTtl]

\* Variant: an entry exactly one TTL old still counts as valid.
isCacheValidInclusive ==
    IF modelsCache.data = Null THEN FALSE
    ELSE (now - modelsCache.fetchedAt) <= modelsCache.ttl

isCacheValid ==
    IF modelsCache.data = Null THEN FALSE
    ELSE (now - modelsCache.fetchedAt) < modelsCache.ttl

supportsSingle(m) == m.capabilities.supportsSingleReference
supportsMultiple(m) == m.capabilities.supportsMultipleReferences

\* Variant: the single-reference filter tests the multiple-reference flag.
applyFiltersMultipleOnly(models, opts) ==
    IF opts = {} THEN models
    ELSE LET count == CHOOSE c \in opts : TRUE
         IN  IF count = 0 THEN models
             ELSE SelectSeq(models, supportsMultiple)

\* The referenceImageCount filter at the end of getImageModels.
applyFilters(models, opts) ==
    IF opts = {} THEN models
    ELSE LET count == CHOOSE c \in opts : TRUE
         IN  IF count = 0 THEN models
             ELSE IF count = 1 THEN SelectSeq(models, supportsSingle)
             ELSE IF count > 1 THEN SelectSeq(models, supportsMultiple)
             ELSE models

CatalogInit ==
    /\ modelsCache = emptyCache
    /\ now = 0
    /\ pc = [c \in Calls |-> "idle"]
    /\ options = [c \in Calls |-> {}]
    /\ fetchCount = [c \in Calls |-> 0]
    /\ path = [c \in Calls |-> "none"]
    /\ ret = [c \in Calls |-> << >>]

ScorerIdle ==
    /\ allModels = << >>
    /\ requirements = noRequirements
    /\ limit = DefaultLimit
    /\ phase = "ready"
    /\ scored = << >>
    /\ topModels = << >>

\* No tool request has been made.
ToolIdle ==
    /\ toolName = "none"
    /\ toolPc = "idle"
    /\ toolArgs = << >>
    /\ validatedModel = << >>
    /\ configModel = << >>
    /\ dimensionsModel = << >>
    /\ replicateRuns = << >>
    /\ toolResult = << >>

\* No orchestrated request has been made.
AgentIdle ==
    /\ orchPc = "idle"
    /\ safetyCall = [kind |-> "none"]
    /\ llmCalls = << >>
    /\ started = << >>
    /\ safetyResult = << >>
    /\ functionCalls = << >>
    /\ callIndex = 0
    /\ iterationCount = 0
    /\ toolResults = << >>
    /\ generations = 0
    /\ orchResult = << >>

\* No collection entry is being described.
SchemaIdle ==
    /\ modelSchema = [kind |-> "null"]
    /\ schemaPhase = "raw"
    /\ inputSchema = << >>
    /\ extractOutcome = "none"
    /\ capabilities = << >>
    /\ summaryCapabilities = << >>

Init ==
    /\ CatalogInit
    /\ catalogSource \in SourceModes
    /\ ScorerIdle
    /\ SchemaIdle
    /\ ToolIdle
    /\ AgentIdle

\* getImageModels(options) up to its await: a valid cache is returned at
\* once, otherwise fetchModelsFromAPI is invoked and the call suspends.
GetImageModels(c, opts) ==
    /\ pc[c] = "idle"
    /\ options' = [options EXCEPT ![c] = opts]
    /\ IF isCacheValid
       THEN /\ pc' = [pc EXCEPT ![c] = "done"]
            /\ path' = [path EXCEPT ![c] = "cache"]
            /\ ret' = [ret EXCEPT ![c] = applyFilters(listOf(modelsCache.data), opts)]
            /\ fetchCount' = [fetchCount EXCEPT ![c] = 0]
       ELSE /\ pc' = [pc EXCEPT ![c] = "fetching"]
            /\ path' = [path EXCEPT ![c] = "none"]
            /\ ret' = [ret EXCEPT ![c] = << >>]
            /\ fetchCount' = [fetchCount EXCEPT ![c] = 1]
    /\ UNCHANGED << modelsCache, now, catalogSource >>
    /\ UNCHANGED scorerVars
    /\ UNCHANGED schemaVars
    /\ UNCHANGED toolVars
    /\ UNCHANGED agentVars

\* Variant: the cached list is replaced but the timestamp is left alone.
FetchResolvedKeepsTimestamp(c, response) ==
    /\ pc[c] = "fetching"
    /\ catalogSource \in {"flaky"}
    /\ LET models == fetched[response]
       IN  /\ modelsCache' = [modelsCache EXCEPT !.data = stored(models)]
           /\ ret' = [ret EXCEPT ![c] = applyFilters(models, options[c])]
    /\ pc' = [pc EXCEPT ![c] = "done"]
    /\ path' = [path EXCEPT ![c] = "live"]
    /\ UNCHANGED << now, catalogSource, options, fetchCount >>
    /\ UNCHANGED scorerVars
    /\ UNCHANGED schemaVars
    /\ UNCHANGED toolVars
    /\ UNCHANGED agentVars

\* The await resumes with the fetched list: the cache is replaced and the
\* filtered list returned.
FetchResolved(c, response) ==
    /\ pc[c] = "fetching"
    /\ catalogSource \in {"flaky"}
    /\ LET models == fetched[response]
       IN  /\ modelsCache' = [data |-> stored(models), fetchedAt |-> now, ttl |-> modelsCache.ttl]
           /\ ret' = [ret EXCEPT ![c] = applyFilters(models, options[c])]
    /\ pc' = [pc EXCEPT ![c] = "done"]
    /\ path' = [path EXCEPT ![c] = "live"]
    /\ UNCHANGED << now, catalogSource, options, fetchCount >>
    /\ UNCHANGED scorerVars
    /\ UNCHANGED schemaVars
    /\ UNCHANGED toolVars
    /\ UNCHANGED agentVars

\* Variant: the error of the fetch leaves getImageModels.
FetchRejectedThrows(c) ==
    /\ pc[c] = "fetching"
    /\ catalogSource \in {"down", "flaky"}
    /\ pc' = [pc EXCEPT ![c] = "threw"]
    /\ path' = [path EXCEPT ![c] = "error"]
    /\ UNCHANGED << modelsCache, now, catalogSource, options, fetchCount, ret >>
    /\ UNCHANGED scorerVars
    /\ UNCHANGED schemaVars
    /\ UNCHANGED toolVars
    /\ UNCHANGED agentVars

\* Variant: the fallback list is stored in the cache and timestamped.
FetchRejectedCachesFallback(c) ==
    /\ pc[c] = "fetching"
    /\ catalogSource \in {"down", "flaky"}
    /\ modelsCache' = [data |-> stored(fallbackModels), fetchedAt |-> now, ttl |-> modelsCache.ttl]
    /\ ret' = [ret EXCEPT ![c] = applyFilters(fallbackModels, options[c])]
    /\ pc' = [pc EXCEPT ![c] = "done"]
    /\ path' = [path EXCEPT ![c] = "fallback"]
    /\ UNCHANGED << now, catalogSource, options, fetchCount >>
    /\ UNCHANGED scorerVars
    /\ UNCHANGED schemaVars
    /\ UNCHANGED toolVars
    /\ UNCHANGED agentVars

\* The await resumes with an error: the catch block takes the fallback list.
FetchRejected(c) ==
    /\ pc[c] = "fetching"
    /\ catalogSource \in {"down", "flaky"}
    /\ ret' = [ret EXCEPT ![c] = applyFilters(fallbackModels, options[c])]
    /\ pc' = [pc EXCEPT ![c] = "done"]
    /\ path' = [path EXCEPT ![c] = "fallback"]
    /\ UNCHANGED << modelsCache, now, catalogSource, options, fetchCount >>
    /\ UNCHANGED scorerVars
    /\ UNCHANGED schemaVars
    /\ UNCHANGED toolVars
    /\ UNCHANGED agentVars

\* The caller has taken the result; the slot serves the next request.
Finish(c) ==
    /\ pc[c] = "done"
    /\ pc' = [pc EXCEPT ![c] = "idle"]
    /\ options' = [options EXCEPT ![c] = {}]
    /\ fetchCount' = [fetchCount EXCEPT ![c] = 0]
    /\ path' = [path EXCEPT ![c] = "none"]
    /\ ret' = [ret EXCEPT ![c] = << >>]
    /\ UNCHANGED << modelsCache, now, catalogSource >>
    /\ UNCHANGED scorerVars
    /\ UNCHANGED schemaVars
    /\ UNCHANGED toolVars
    /\ UNCHANGED agentVars

\* Time passes.
Tick ==
    /\ \E t \in Instants : t > now /\ now' = t
    /\ UNCHANGED << modelsCache, catalogSource, pc, options, fetchCount, path, ret >>
    /\ UNCHANGED scorerVars
    /\ UNCHANGED schemaVars
    /\ UNCHANGED toolVars
    /\ UNCHANGED agentVars

Next ==
    \/ \E c \in Calls, opts \in ReferenceImageCounts : GetImageModels(c, opts)
    \/ \E c \in Calls, response \in ApiResponses : FetchResolved(c, response)
    \/ \E c \in Calls : FetchRejected(c)
    \/ \E c \in Calls : Finish(c)
    \/ Tick

Spec == Init /\ [][Next]_vars

(***************************************************************************)
(* Part 2: model-filter.service.                                           *)
(*                                                                         *)
(* Scores are sums of integers and of the popularity term                  *)
(* min(log10(runCount || 1) / 10, 1) * 20, which is the integer            *)
(* 2 * log10(runCount) for the run counts of the catalogs below (powers of *)
(* ten), so every score here is the exact value the code computes.         *)
(***************************************************************************)
MaxCatalog == 2     \* models in model-summaries.json
MaxLimit == 2       \* limits 0..MaxLimit
\* Truthiness of a requirements field.
truthyFlag(field) == field = << TRUE >>
truthyString(field) == field # << >> /\ field[1] # ""
nonEmptyList(field) == field # << >> /\ Len(field[1]) > 0

min(a, b) == IF a <= b THEN a ELSE b
max(a, b) == IF a >= b THEN a ELSE b

\* Math.log10 on a power of ten.
RECURSIVE log10(_)
log10(n) == IF n < 10 THEN 0 ELSE 1 + log10(n \div 10)

\* Math.min(Math.log10(model.runCount || 1) / 10, 1) * 20
popularityScore(model) ==
    LET runCount == IF has(model, "runCount") /\ model.runCount # 0
                    THEN model.runCount ELSE 1
    IN  min(2 * log10(runCount), 20)

qualityMap(name) ==
    CASE name = "low" -> 1
      [] name = "moderate" -> 2
      [] name = "good" -> 3
      [] name = "very-good" -> 4
      [] name = "excellent" -> 5
      [] OTHER -> 0

\* qualityMap[x] || 3
qualityLevel(name) == IF qualityMap(name) = 0 THEN 3 ELSE qualityMap(name)

\* Optional chaining into model.summary; "" and << >> stand for undefined.
summaryOf(model) == IF has(model, "summary") THEN model.summary ELSE [none |-> TRUE]
summaryList(model, field) ==
    IF has(summaryOf(model), field) THEN summaryOf(model)[field] ELSE << >>
hasSummaryList(model, field) == has(summaryOf(model), field)
qualityProfile(model, field) ==
    IF has(summaryOf(model), "qualityProfile") /\ has(summaryOf(model).qualityProfile, field)
    THEN summaryOf(model).qualityProfile[field]
    ELSE ""

\* Array.prototype.join
RECURSIVE join(_, _)
join(arr, sep) ==
    IF Len(arr) = 0 THEN ""
    ELSE IF Len(arr) = 1 THEN arr[1]
    ELSE arr[1] \o sep \o join(Tail(arr), sep)

\* JSON.stringify of the summary: its fields in the order of the document.
jsonString(s) == "\"" \o s \o "\""
jsonArray(arr) == "[" \o join([i \in 1..Len(arr) |-> jsonString(arr[i])], ",") \o "]"
jsonQualityProfile(q) ==
    LET keys == SelectSeq(<< "speed", "detail", "coherence", "promptFollowing" >>,
                          LAMBDA k : has(q, k))
    IN  "{" \o join([i \in 1..Len(keys) |-> jsonString(keys[i]) \o ":" \o jsonString(q[keys[i]])], ",") \o "}"
jsonField(summary, key) ==
    jsonString(key) \o ":" \o
        (IF key \in {"oneLinePitch", "typicalUseCase"} THEN jsonString(summary[key])
         ELSE IF key = "qualityProfile" THEN jsonQualityProfile(summary[key])
         ELSE jsonArray(summary[key]))
stringifySummary(model) ==
    IF ~has(model, "summary") THEN "{}"
    ELSE LET keys == SelectSeq(<< "oneLinePitch", "bestFor", "notGoodFor", "styleStrengths",
                                  "qualityProfile", "typicalUseCase" >>,
                               LAMBDA k : has(model.summary, k))
         IN  "{" \o join([i \in 1..Len(keys) |-> jsonField(model.summary, keys[i])], ",") \o "}"

\* a.includes(b) || b.includes(a), both lower-cased.
matchesEitherWay(a, b) ==
    LET aLower == toLowerCase(a)
        bLower == toLowerCase(b)
    IN  includes(aLower, bLower) \/ includes(bLower, aLower)

someMatch(list, text) == \E i \in 1..Len(list) : matchesEitherWay(list[i], text)

add(acc, delta, reason) ==
    [score |-> acc.score + delta,
     reasons |-> IF reason = "" THEN acc.reasons ELSE Append(acc.reasons, reason)]

\* Variant: the explicit preference is worth 10.
scorePreferredSmallBonus(acc, model, req) ==
    IF truthyString(req.preferredModel)
    THEN LET preferredLower == toLowerCase(req.preferredModel[1])
         IN  IF \/ includes(toLowerCase(model.name), preferredLower)
                \/ includes(toLowerCase(model.id), preferredLower)
                \/ includes(toLowerCase(model.owner), preferredLower)
                \/ includes(toLowerCase(model.fullName), preferredLower)
             THEN add(acc, 10, "User explicitly requested this model")
             ELSE acc
    ELSE acc

scorePreferred(acc, model, req) ==
    IF truthyString(req.preferredModel)
    THEN LET preferredLower == toLowerCase(req.preferredModel[1])
         IN  IF \/ includes(toLowerCase(model.name), preferredLower)
                \/ includes(toLowerCase(model.id), preferredLower)
                \/ includes(toLowerCase(model.owner), preferredLower)
                \/ includes(toLowerCase(model.fullName), preferredLower)
             THEN add(acc, 100, "User explicitly requested this model")
             ELSE acc
    ELSE acc

acceptsReferences(model) ==
    \/ (has(model.capabilities, "supportsReferenceImages")
            /\ model.capabilities.supportsReferenceImages)
    \/ model.capabilities.imageToImage

scoreReference(acc, model, req) ==
    IF truthyFlag(req.needsReferenceImages)
    THEN IF acceptsReferences(model)
         THEN add(acc, 30, "Supports reference images")
         ELSE add(acc, -50, "Does not support reference images (required)")
    ELSE IF model.capabilities.textToImage THEN add(acc, 10, "") ELSE acc

scoreStyle(acc, model, req) ==
    IF nonEmptyList(req.styleFocus)
    THEN LET modelStyles == summaryList(model, "styleStrengths")
             matchedStyles == SelectSeq(req.styleFocus[1],
                                        LAMBDA reqStyle : someMatch(modelStyles, reqStyle))
         IN  IF Len(modelStyles) > 0
             THEN IF Len(matchedStyles) > 0
                  THEN add(acc, Len(matchedStyles) * 15,
                           "Matches style: " \o join(matchedStyles, ", "))
                  ELSE add(acc, -10, "Style mismatch")
             ELSE acc
    ELSE acc

scoreQuality(acc, model, req) ==
    IF truthyString(req.minQuality)
    THEN LET minQualityLevel == qualityLevel(req.minQuality[1])
             modelDetail == qualityLevel(qualityProfile(model, "detail"))
             modelPromptFollowing == qualityLevel(qualityProfile(model, "promptFollowing"))
             a1 == IF modelDetail >= minQualityLevel
                   THEN add(acc, 10, "Meets quality requirements")
                   ELSE add(acc, -20, "Below quality requirements")
         IN  IF modelPromptFollowing >= minQualityLevel THEN add(a1, 5, "") ELSE a1
    ELSE acc

\* Variant: a request without speedPreference is scored as a request for
\* fast generation.
scoreSpeedDefaultFast(acc, model, req) ==
    LET declared == qualityProfile(model, "speed")
        speed == IF declared = "" THEN "moderate" ELSE declared
    IN  IF req.speedPreference = << "fast" >> \/ req.speedPreference = << >>
        THEN IF speed \in {"very-fast", "fast"} THEN add(acc, 15, "Fast generation")
             ELSE IF speed \in {"very-slow", "slow"} THEN add(acc, -10, "Slow generation")
             ELSE acc
        ELSE IF req.speedPreference = << "no" >>
        THEN IF speed \in {"very-fast", "fast"} THEN add(acc, -5, "") ELSE acc
        ELSE acc

scoreSpeed(acc, model, req) ==
    LET declared == qualityProfile(model, "speed")
        speed == IF declared = "" THEN "moderate" ELSE declared
    IN  IF req.speedPreference = << "fast" >>
        THEN IF speed \in {"very-fast", "fast"} THEN add(acc, 15, "Fast generation")
             ELSE IF speed \in {"very-slow", "slow"} THEN add(acc, -10, "Slow generation")
             ELSE acc
        ELSE IF req.speedPreference = << "no" >>
        THEN IF speed \in {"very-fast", "fast"} THEN add(acc, -5, "") ELSE acc
        ELSE acc

scoreBestFor(acc, model, req) ==
    IF truthyString(req.useCase) /\ hasSummaryList(model, "bestFor")
    THEN IF someMatch(model.summary.bestFor, req.useCase[1])
         THEN add(acc, 20, "Matches use case")
         ELSE acc
    ELSE acc

scoreAspectRatio(acc, model, req) ==
    IF truthyString(req.aspectRatio) /\ has(model.capabilities, "supportedAspectRatios")
    THEN IF arrayIncludes(model.capabilities.supportedAspectRatios, req.aspectRatio[1])
         THEN add(acc, 5, "")
         ELSE IF arrayIncludes(model.capabilities.supportedAspectRatios, "custom")
         THEN add(acc, 3, "")
         ELSE add(acc, -5, "Aspect ratio not supported")
    ELSE acc

scoreSpecialNeeds(acc, model, req) ==
    IF nonEmptyList(req.specialNeeds)
    THEN LET summaryText == toLowerCase(stringifySummary(model))
             matchedNeeds == SelectSeq(req.specialNeeds[1],
                                       LAMBDA need : includes(summaryText, toLowerCase(need)))
         IN  IF Len(matchedNeeds) > 0
             THEN add(acc, Len(matchedNeeds) * 10, "Supports: " \o join(matchedNeeds, ", "))
             ELSE acc
    ELSE acc

scoreNotGoodFor(acc, model, req) ==
    IF truthyString(req.useCase) /\ hasSummaryList(model, "notGoodFor")
    THEN IF someMatch(model.summary.notGoodFor, req.useCase[1])
         THEN add(acc, -30, "Model explicitly not recommended for this use case")
         ELSE acc
    ELSE acc

scoreModel(model, req) ==
    LET a0 == [score |-> popularityScore(model), reasons |-> << >>]
        a1 == scorePreferred(a0, model, req)
        a2 == scoreReference(a1, model, req)
        a3 == scoreStyle(a2, model, req)
        a4 == scoreQuality(a3, model, req)
        a5 == scoreSpeed(a4, model, req)
        a6 == scoreBestFor(a5, model, req)
        a7 == scoreAspectRatio(a6, model, req)
        a8 == scoreSpecialNeeds(a7, model, req)
    IN  scoreNotGoodFor(a8, model, req)

\* Variant: a request without aspectRatio is filtered as a request for 1:1.
passesHardFiltersDefaultRatio(model, req) ==
    LET ratio == IF truthyString(req.aspectRatio) THEN req.aspectRatio[1] ELSE "1:1"
    IN  /\ truthyFlag(req.needsReferenceImages) => acceptsReferences(model)
        /\ ~truthyFlag(req.needsReferenceImages) => model.capabilities.textToImage
        /\ ~ (/\ has(model.capabilities, "supportedAspectRatios")
              /\ ~arrayIncludes(model.capabilities.supportedAspectRatios, ratio)
              /\ ~arrayIncludes(model.capabilities.supportedAspectRatios, "custom"))

\* Variant: the reference filter is left out; textToImage is always required.
passesHardFiltersTextOnly(model, req) ==
    /\ model.capabilities.textToImage
    /\ ~ (/\ truthyString(req.aspectRatio)
          /\ has(model.capabilities, "supportedAspectRatios")
          /\ ~arrayIncludes(model.capabilities.supportedAspectRatios, req.aspectRatio[1])
          /\ ~arrayIncludes(model.capabilities.supportedAspectRatios, "custom"))

\* The callback of the first pass: TRUE when the model is kept.
passesHardFilters(model, req) ==
    IF truthyFlag(req.needsReferenceImages) /\ ~acceptsReferences(model) THEN FALSE
    ELSE IF ~truthyFlag(req.needsReferenceImages) /\ ~model.capabilities.textToImage THEN FALSE
    ELSE IF /\ truthyString(req.aspectRatio)
            /\ has(model.capabilities, "supportedAspectRatios")
            /\ ~arrayIncludes(model.capabilities.supportedAspectRatios, req.aspectRatio[1])
            /\ ~arrayIncludes(model.capabilities.supportedAspectRatios, "custom")
         THEN FALSE
    ELSE TRUE

\* { ...model, _score, _scoreReasons }
scoredEntry(model, req) ==
    LET result == scoreModel(model, req)
    IN  [model |-> model, _score |-> result.score, _scoreReasons |-> result.reasons]

\* Variant: an entry is placed before the entries of equal score.
RECURSIVE insertByScoreFirst(_, _)
insertByScoreFirst(sorted, entry) ==
    IF sorted = << >> THEN << entry >>
    ELSE IF Head(sorted)._score > entry._score
         THEN << Head(sorted) >> \o insertByScoreFirst(Tail(sorted), entry)
         ELSE << entry >> \o sorted

\* scored.sort((a, b) => b._score - a._score): the stable sort of
\* Array.prototype.sort, descending by _score.
RECURSIVE insertByScore(_, _)
insertByScore(sorted, entry) ==
    IF sorted = << >> THEN << entry >>
    ELSE IF Head(sorted)._score >= entry._score
         THEN << Head(sorted) >> \o insertByScore(Tail(sorted), entry)
         ELSE << entry >> \o sorted

RECURSIVE sortByScore(_)
sortByScore(arr) ==
    IF arr = << >> THEN << >>
    ELSE insertByScore(sortByScore(SubSeq(arr, 1, Len(arr) - 1)), arr[Len(arr)])

\* Variant: the slice keeps the element at index end too.
sliceInclusive(arr, end) ==
    SubSeq(arr, 1, min(IF end < 0 THEN max(Len(arr) + end, 0) ELSE end + 1, Len(arr)))

\* arr.slice(0, end)
slice(arr, end) ==
    SubSeq(arr, 1, IF end < 0 THEN max(Len(arr) + end, 0) ELSE min(end, Len(arr)))

\* The first pass, the second pass and the sort of filterAndScoreModels:
\* its local scored, sorted.
sortedScored(models, req) ==
    IF Len(models) = 0 THEN << >>
    ELSE LET filtered == SelectSeq(models, LAMBDA model : passesHardFilters(model, req))
         IN  sortByScore([i \in 1..Len(filtered) |-> scoredEntry(filtered[i], req)])

\* The top models handed back: the internal scoring fields are removed.
stripScores(entries) == [i \in 1..Len(entries) |-> entries[i].model]

topOf(sorted, lim) == stripScores(slice(sorted, lim))

filterAndScoreModels(models, req, lim) == topOf(sortedScored(models, req), lim)

(***************************************************************************)
(* The summaries and the requirements the scorer is applied to.            *)
(***************************************************************************)
SummaryFluxDev ==
    [id |-> "flux-dev", name |-> "flux-dev", owner |-> "black-forest-labs",
     fullName |-> "black-forest-labs/flux-dev", runCount |-> 1000000,
     capabilities |-> [textToImage |-> TRUE, imageToImage |-> FALSE,
                       supportsReferenceImages |-> FALSE,
                       supportedAspectRatios |-> << "16:9", "4:3" >>],
     summary |-> [oneLinePitch |-> "High detail",
                  bestFor |-> << "Portraits" >>,
                  notGoodFor |-> << "logo" >>,
                  styleStrengths |-> << "Photorealistic" >>,
                  qualityProfile |-> [speed |-> "slow", detail |-> "excellent",
                                      promptFollowing |-> "very-good"]]]
SummarySchnell ==
    [id |-> "flux-schnell", name |-> "flux-schnell", owner |-> "black-forest-labs",
     fullName |-> "black-forest-labs/flux-schnell", runCount |-> 1000000,
     capabilities |-> [textToImage |-> TRUE, imageToImage |-> FALSE,
                       supportsReferenceImages |-> FALSE,
                       supportedAspectRatios |-> << "1:1", "16:9" >>],
     summary |-> [oneLinePitch |-> "Quick drafts",
                  bestFor |-> << "logo design" >>,
                  notGoodFor |-> << >>,
                  styleStrengths |-> << "anime" >>,
                  qualityProfile |-> [speed |-> "very-fast", detail |-> "good",
                                      promptFollowing |-> "good"]]]
SummaryKontext ==
    [id |-> "kontext", name |-> "kontext", owner |-> "black-forest-labs",
     fullName |-> "black-forest-labs/kontext", runCount |-> 10000,
     capabilities |-> [textToImage |-> TRUE, imageToImage |-> TRUE,
                       supportsReferenceImages |-> TRUE,
                       supportedAspectRatios |-> << "custom" >>],
     summary |-> [oneLinePitch |-> "Edits with text",
                  bestFor |-> << "editing" >>,
                  styleStrengths |-> << >>,
                  qualityProfile |-> [speed |-> "moderate", detail |-> "very-good"]]]
\* Its schema has an image parameter and no prompt parameter.
SummaryRestyle ==
    [id |-> "restyle", name |-> "restyle", owner |-> "acme",
     fullName |-> "acme/restyle", runCount |-> 0,
     capabilities |-> [textToImage |-> FALSE, imageToImage |-> TRUE,
                       supportsReferenceImages |-> TRUE,
                       supportedAspectRatios |-> << "1:1" >>],
     summary |-> [oneLinePitch |-> "Anime restyling"]]

SummaryPool == { SummaryFluxDev, SummarySchnell, SummaryKontext, SummaryRestyle }

\* The catalogs: the lists of at most MaxCatalog different summaries.
RECURSIVE listsOver(_, _)
listsOver(pool, n) ==
    IF n = 0 THEN { << >> }
    ELSE LET shorter == listsOver(pool, n - 1)
         IN  shorter \cup
             { Append(l, m) : l \in { s \in shorter : Len(s) = n - 1 }, m \in pool }

noRepeat(list) == \A i, j \in 1..Len(list) : list[i] = list[j] => i = j

SummaryCatalogs == { l \in listsOver(SummaryPool, MaxCatalog) : noRepeat(l) }

RequirementObjects ==
    [needsReferenceImages : { << >>, << TRUE >>, << FALSE >> },
     minQuality : { << >>, << "excellent" >> },
     styleFocus : { << >>, << << "Anime", "photo" >> >> },
     speedPreference : { << >>, << "fast" >> },
     preferredModel : { << >>, << "Flux-Dev" >> },
     useCase : { << >>, << "Logo" >> },
     specialNeeds : { << >>, << << "edits" >> >> },
     aspectRatio : { << >>, << "16:9" >> }]

Limits == 0..MaxLimit

ScorerInit ==
    /\ CatalogInit
    /\ catalogSource = "down"
    /\ allModels \in SummaryCatalogs
    /\ requirements \in RequirementObjects
    /\ limit \in Limits
    /\ phase = "ready"
    /\ scored = << >>
    /\ topModels = << >>
    /\ SchemaIdle
    /\ ToolIdle
    /\ AgentIdle

\* One call filterAndScoreModels(requirements, limit).
FilterAndScoreModels ==
    /\ phase = "ready"
    /\ scored' = sortedScored(allModels, requirements)
    /\ topModels' = topOf(scored', limit)
    /\ phase' = "returned"
    /\ UNCHANGED << allModels, requirements, limit >>
    /\ UNCHANGED catalogVars
    /\ UNCHANGED schemaVars
    /\ UNCHANGED toolVars
    /\ UNCHANGED agentVars

ScorerNext == FilterAndScoreModels

ScorerSpec == ScorerInit /\ [][ScorerNext]_vars

(***************************************************************************)
(* The hard filters applied to summaries with sparse capabilities.         *)
(***************************************************************************)
\* A model whose source entry has no input schema: detectCapabilities of
\* the summaries route returns early, with textToImage set and the initial
\* empty supportedAspectRatios list.
SummaryNoSchema ==
    [id |-> "plain", name |-> "plain", owner |-> "acme",
     fullName |-> "acme/plain", runCount |-> 100,
     capabilities |-> [textToImage |-> TRUE, imageToImage |-> FALSE,
                       supportsReferenceImages |-> FALSE,
                       supportedAspectRatios |-> << >>],
     summary |-> [oneLinePitch |-> "Plain"]]

\* An entry of the summaries file whose capabilities declare no
\* supportedAspectRatios.
SummaryUndeclared ==
    [id |-> "legacy", name |-> "legacy", owner |-> "acme",
     fullName |-> "acme/legacy", runCount |-> 10,
     capabilities |-> [textToImage |-> TRUE, imageToImage |-> FALSE],
     summary |-> [oneLinePitch |-> "Legacy"]]

FilterPool == SummaryPool \cup { SummaryNoSchema, SummaryUndeclared }

FilterCatalogs == { l \in listsOver(FilterPool, MaxCatalog) : noRepeat(l) }

FilterRequirements ==
    { [noRequirements EXCEPT !.needsReferenceImages = refs, !.aspectRatio = ratio] :
        refs \in { << >>, << TRUE >>, << FALSE >> },
        ratio \in { << >>, << "16:9" >>, << "1:1" >> } }

FilterInit ==
    /\ CatalogInit
    /\ catalogSource = "down"
    /\ allModels \in FilterCatalogs
    /\ requirements \in FilterRequirements
    /\ limit \in Limits \cup { DefaultLimit }
    /\ phase = "ready"
    /\ scored = << >>
    /\ topModels = << >>
    /\ SchemaIdle
    /\ ToolIdle
    /\ AgentIdle

FilterSpec == FilterInit /\ [][ScorerNext]_vars

(***************************************************************************)
(* Requirements under which the scoring signals compete.                   *)
(***************************************************************************)
RankingRequirements ==
    { [noRequirements EXCEPT !.preferredModel = preferred, !.speedPreference = speed,
                             !.useCase = use, !.styleFocus = styles,
                             !.specialNeeds = needs, !.minQuality = quality] :
        preferred \in { << >>, << "Flux-Dev" >>, << "Schnell" >>, << "Black-Forest" >> },
        speed \in { << >>, << "fast" >>, << "no" >> },
        use \in { << >>, << "Logo" >> },
        styles \in { << >>, << << "Anime", "watercolor" >> >> },
        needs \in { << >>, << << "drafts", "Quick" >> >> },
        quality \in { << >>, << "good" >> } }

RankingInit ==
    /\ CatalogInit
    /\ catalogSource = "down"
    /\ allModels \in SummaryCatalogs
    /\ requirements \in RankingRequirements
    /\ limit \in Limits
    /\ phase = "ready"
    /\ scored = << >>
    /\ topModels = << >>
    /\ SchemaIdle
    /\ ToolIdle
    /\ AgentIdle

RankingSpec == RankingInit /\ [][ScorerNext]_vars

(***************************************************************************)
(* Part 3: the schema extractor and the two capability classifiers applied *)
(* to one collection entry.                                                *)
(***************************************************************************)
MaxProps == 2       \* properties of one Input schema


PropertyPool ==
    { PropPrompt, PropImage, PropImageInput, PropImages, PropMask, PropMaskNamedImage,
      PropAspectRatio, PropWidth, PropHeight, PropNull, PropBadAllOf, PropCharacter }

noRepeatedKey(entries) ==
    \A i, j \in 1..Len(entries) : entries[i].key = entries[j].key => i = j

PropertyLists == { l \in listsOver(PropertyPool, MaxProps) : noRepeatedKey(l) }

RequiredValues ==
    { [kind |-> "absent"], [kind |-> "array", items |-> << "prompt" >>],
      [kind |-> "string", text |-> "prompt,image"], [kind |-> "object"] }

SchemaInputs ==
    { [kind |-> "null"], [kind |-> "noInput"] }
    \cup { [kind |-> "input", properties |-> << >>, required |-> required] :
             required \in RequiredValues }
    \cup { [kind |-> "input", properties |-> << entries >>, required |-> required] :
             entries \in PropertyLists, required \in RequiredValues }

SchemaInit ==
    /\ CatalogInit
    /\ catalogSource = "down"
    /\ ScorerIdle
    /\ modelSchema \in SchemaInputs
    /\ schemaPhase = "raw"
    /\ inputSchema = << >>
    /\ extractOutcome = "none"
    /\ capabilities = << >>
    /\ summaryCapabilities = << >>
    /\ ToolIdle
    /\ AgentIdle

\* fetchModelsFromAPI describing one collection entry: detectCapabilities
\* on the raw properties and extractSimplifiedSchema.
Catalogue ==
    /\ schemaPhase = "raw"
    /\ capabilities' = << detectCapabilities(propertyNames(modelSchema)) >>
    /\ LET result == extractSimplifiedSchema(modelSchema)
       IN  /\ inputSchema' = result.returned
           /\ extractOutcome' = IF result.threw THEN "threw" ELSE "returned"
    /\ schemaPhase' = "catalogued"
    /\ UNCHANGED << modelSchema, summaryCapabilities >>
    /\ UNCHANGED catalogVars
    /\ UNCHANGED scorerVars
    /\ UNCHANGED toolVars
    /\ UNCHANGED agentVars

\* The summaries route classifying the stored inputSchema of the model.
Summarise ==
    /\ schemaPhase = "catalogued"
    /\ extractOutcome = "returned"
    /\ summaryCapabilities' = << routeDetectCapabilities(inputSchema) >>
    /\ schemaPhase' = "summarised"
    /\ UNCHANGED << modelSchema, inputSchema, extractOutcome, capabilities >>
    /\ UNCHANGED catalogVars
    /\ UNCHANGED scorerVars
    /\ UNCHANGED toolVars
    /\ UNCHANGED agentVars

SchemaNext == Catalogue \/ Summarise

SchemaSpec == SchemaInit /\ [][SchemaNext]_vars

(***************************************************************************)
(* Part 4: the tool layer.  searchModels, executeGenerateImage and         *)
(* createGeneration look the catalog up through getImageModels, one call   *)
(* per lookup; the request below makes its lookups through the call slot   *)
(* requestCall, so the cache, the clock and the endpoint decide what each  *)
(* lookup sees.  The request carries no extraParams and no negative        *)
(* prompt, and its reference URLs contain no white space.                  *)
(***************************************************************************)
requestCall == 1

\* models.find(m => m.id === modelId || m.fullName === modelId):
\* << >> when there is none.
getModelById(models, modelId) ==
    LET found == SelectSeq(models, LAMBDA m : m.id = modelId \/ m.fullName = modelId)
    IN  IF found = << >> THEN << >> ELSE << found[1] >>

\* The predicate of searchModels up to model.tags.
matchesNameOrDescription(model, lowerKeyword) ==
    \/ includes(toLowerCase(model.name), lowerKeyword)
    \/ includes(toLowerCase(model.description), lowerKeyword)

\* model.tags.some(...) on an entry without tags raises a TypeError.
searchRaises(model, lowerKeyword) ==
    ~matchesNameOrDescription(model, lowerKeyword) /\ ~has(model, "tags")

searchMatches(model, lowerKeyword) ==
    \/ matchesNameOrDescription(model, lowerKeyword)
    \/ (has(model, "tags")
            /\ \E i \in 1..Len(model.tags) : includes(toLowerCase(model.tags[i]), lowerKeyword))

\* searchModels on the list getImageModels resolved to.
searchModels(models, keyword) ==
    LET lowerKeyword == toLowerCase(keyword)
    IN  IF \E i \in 1..Len(models) : searchRaises(models[i], lowerKeyword)
        THEN [threw |-> TRUE, models |-> << >>]
        ELSE [threw |-> FALSE,
              models |-> SelectSeq(models, LAMBDA m : searchMatches(m, lowerKeyword))]

\* executeGenerateImage: referenceImages as an array of the non-empty
\* strings.
normalizedReferences(referenceImages) ==
    CASE referenceImages.kind = "array" ->
             SelectSeq(referenceImages.items, LAMBDA ref : ref # "")
      [] referenceImages.kind = "string" ->
             IF referenceImages.text # "" THEN << referenceImages.text >> ELSE << >>
      [] OTHER -> << >>

\* generateImage: metadata.referenceImages || [].  executeGenerateImage
\* passes the normalized array, createGeneration the caller's value.
referenceImagesOf(name, referenceImages) ==
    IF name = "generate-image" THEN normalizedReferences(referenceImages)
    ELSE IF referenceImages.kind = "array" THEN referenceImages.items
    ELSE << >>

\* Object.entries(model.inputSchema || {}).filter(isImageInput === true
\* && !isMask)
imageInputParams(model) ==
    { name \in DOMAIN model.inputSchema :
          flag(model.inputSchema[name], "isImageInput")
              /\ ~flag(model.inputSchema[name], "isMask") }

arrayImageParams(model) ==
    { name \in imageInputParams(model) : model.inputSchema[name].type = "array" }

\* The schema-aware validation of executeGenerateImage: the error it
\* raises, or "none".
validateReferences(model, references) ==
    IF Len(references) = 0 THEN "none"
    ELSE IF imageInputParams(model) = {} THEN "doesNotAcceptReferences"
    ELSE IF Len(references) > 1 /\ arrayImageParams(model) = {} THEN "singleReferenceOnly"
    ELSE "none"

\* validatePrompt of the generation service.
validatePrompt(prompt) ==
    IF prompt = "" THEN "promptRequired"
    ELSE IF Len(prompt) < 3 THEN "promptTooShort"
    ELSE IF Len(prompt) > 2000 THEN "promptTooLong"
    ELSE "none"

\* getDimensions on the descriptor its own lookup found.
getDimensions(model, aspectRatio) ==
    LET table == model.aspectRatios
        key == IF aspectRatio \in DOMAIN table THEN << aspectRatio >>
               ELSE IF "1:1" \in DOMAIN table THEN << "1:1" >>
               ELSE << >>
    IN  IF key # << >> /\ table[key[1]].width # 0 /\ table[key[1]].height # 0
        THEN table[key[1]]
        ELSE calculateDimensionsFromAspectRatio(aspectRatio)

\* generateImage: the reference parameter is looked up by its exact name.
referenceError(model, references) ==
    IF Len(references) > 0
          /\ referenceField(model.inputSchema) = "image"
          /\ Len(references) > 1
    THEN "singleImageParameter"
    ELSE "none"

referenceParams(model, references) ==
    IF Len(references) = 0 THEN << >>
    ELSE IF referenceField(model.inputSchema) = "image_input"
    THEN "image_input" :> references
    ELSE IF referenceField(model.inputSchema) = "image"
    THEN "image" :> references[1]
    ELSE << >>

\* inputParams as handed to replicate.run.
inputParams(model, prompt, dimensions, references) ==
    referenceParams(model, references)
    @@ ("prompt" :> prompt)
    @@ ("width" :> dimensions.width)
    @@ ("height" :> dimensions.height)
    @@ ("num_outputs" :> 1)

failure(message) == << [success |-> FALSE, error |-> message] >>

\* aspectRatio || '1:1'
aspectRatioOf(args) == IF args.aspectRatio = << >> THEN "1:1" ELSE args.aspectRatio[1]

(***************************************************************************)
(* The requests.                                                           *)
(***************************************************************************)
Keywords == { "Flux", "photo", "anime", "I" }

ModelIds == { "flux-dev", "nano-art", "flux-kontext", "stable-diffusion", "dall-e" }

ReferenceArguments ==
    { [kind |-> "absent"],
      [kind |-> "array", items |-> << "https://a/1.png" >>],
      [kind |-> "array", items |-> << "https://a/1.png", "https://a/2.png" >>],
      [kind |-> "array", items |-> << "", "https://a/2.png" >>],
      [kind |-> "string", text |-> "https://a/1.png"] }

AspectRatioArguments == { << >>, << "16:9" >>, << "3:2" >> }

Prompts == { "", "ox", "a red fox" }

GenerateArguments ==
    [modelId : ModelIds, prompt : Prompts, referenceImages : ReferenceArguments,
     aspectRatio : AspectRatioArguments]

\* The states in which the request awaits getImageModels.
Awaiting == { "searching", "lookupModel", "lookupConfig", "lookupDimensions" }

ToolInit ==
    /\ CatalogInit
    /\ catalogSource \in SourceModes
    /\ ScorerIdle
    /\ SchemaIdle
    /\ ToolIdle
    /\ AgentIdle

\* executeSearchModels up to the await inside searchModels.
ExecuteSearchModels(keyword) ==
    /\ toolPc = "idle"
    /\ pc[requestCall] = "idle"
    /\ toolName' = "search-models"
    /\ toolArgs' = [keyword |-> keyword]
    /\ toolPc' = "searching"
    /\ UNCHANGED << validatedModel, configModel, dimensionsModel, replicateRuns, toolResult >>
    /\ UNCHANGED catalogVars
    /\ UNCHANGED scorerVars
    /\ UNCHANGED agentVars
    /\ UNCHANGED schemaVars

\* searchModels after its await: the filter, or the TypeError it raises.
SearchModels ==
    /\ toolPc = "searching"
    /\ pc[requestCall] = "done"
    /\ LET found == searchModels(ret[requestCall], toolArgs.keyword)
       IN  IF found.threw
           THEN /\ toolPc' = "failed"
                /\ toolResult' = failure("typeError")
           ELSE /\ toolPc' = "returned"
                /\ toolResult' = << [success |-> TRUE, models |-> found.models] >>
    /\ UNCHANGED << toolName, toolArgs, validatedModel, configModel, dimensionsModel,
                    replicateRuns >>
    /\ UNCHANGED catalogVars
    /\ UNCHANGED scorerVars
    /\ UNCHANGED agentVars
    /\ UNCHANGED schemaVars

\* executeGenerateImage up to its await of getModelById.
ExecuteGenerateImage(args) ==
    /\ toolPc = "idle"
    /\ pc[requestCall] = "idle"
    /\ toolName' = "generate-image"
    /\ toolArgs' = args
    /\ IF args.prompt = ""
       THEN /\ toolPc' = "failed"
            /\ toolResult' = failure("promptRequired")
       ELSE /\ toolPc' = "lookupModel"
            /\ UNCHANGED toolResult
    /\ UNCHANGED << validatedModel, configModel, dimensionsModel, replicateRuns >>
    /\ UNCHANGED catalogVars
    /\ UNCHANGED scorerVars
    /\ UNCHANGED agentVars
    /\ UNCHANGED schemaVars

\* executeGenerateImage from the model it found to the call of
\* generateImage: the schema-aware validation.
ValidateReferences ==
    /\ toolPc = "lookupModel"
    /\ pc[requestCall] = "done"
    /\ LET model == getModelById(ret[requestCall], toolArgs.modelId)
           references == normalizedReferences(toolArgs.referenceImages)
       IN  /\ validatedModel' = model
           /\ IF model = << >>
              THEN /\ toolPc' = "failed"
                   /\ toolResult' = failure("notFound")
              ELSE IF validateReferences(model[1], references) # "none"
              THEN /\ toolPc' = "failed"
                   /\ toolResult' = failure(validateReferences(model[1], references))
              ELSE /\ toolPc' = "validated"
                   /\ UNCHANGED toolResult
    /\ UNCHANGED << toolName, toolArgs, configModel, dimensionsModel, replicateRuns >>
    /\ UNCHANGED catalogVars
    /\ UNCHANGED scorerVars
    /\ UNCHANGED agentVars
    /\ UNCHANGED schemaVars

\* createGeneration: generateImage is called with the caller's metadata.
CreateGeneration(args) ==
    /\ toolPc = "idle"
    /\ pc[requestCall] = "idle"
    /\ args.referenceImages.kind # "string"
    /\ toolName' = "create-generation"
    /\ toolArgs' = args
    /\ toolPc' = "validated"
    /\ UNCHANGED << validatedModel, configModel, dimensionsModel, replicateRuns, toolResult >>
    /\ UNCHANGED catalogVars
    /\ UNCHANGED scorerVars
    /\ UNCHANGED agentVars
    /\ UNCHANGED schemaVars

\* generateImage up to its await of getModelConfig: validatePrompt.
GenerateImage ==
    /\ toolPc = "validated"
    /\ pc[requestCall] = "idle"
    /\ IF validatePrompt(toolArgs.prompt) # "none"
       THEN /\ toolPc' = "failed"
            /\ toolResult' = failure(validatePrompt(toolArgs.prompt))
       ELSE /\ toolPc' = "lookupConfig"
            /\ UNCHANGED toolResult
    /\ UNCHANGED << toolName, toolArgs, validatedModel, configModel, dimensionsModel,
                    replicateRuns >>
    /\ UNCHANGED catalogVars
    /\ UNCHANGED scorerVars
    /\ UNCHANGED agentVars
    /\ UNCHANGED schemaVars

\* getModelConfig resumes generateImage with its model.  executeGenerateImage
\* passes model.id, createGeneration the caller's modelId.
requestedId ==
    IF toolName = "generate-image" THEN validatedModel[1].id ELSE toolArgs.modelId

GetModelConfig ==
    /\ toolPc = "lookupConfig"
    /\ pc[requestCall] = "done"
    /\ LET model == getModelById(ret[requestCall], requestedId)
       IN  /\ configModel' = model
           /\ IF model = << >>
              THEN /\ toolPc' = "failed"
                   /\ toolResult' = failure("notSupported")
              ELSE /\ toolPc' = "config"
                   /\ UNCHANGED toolResult
    /\ UNCHANGED << toolName, toolArgs, validatedModel, dimensionsModel, replicateRuns >>
    /\ UNCHANGED catalogVars
    /\ UNCHANGED scorerVars
    /\ UNCHANGED agentVars
    /\ UNCHANGED schemaVars

\* generateImage calls getDimensions, which awaits its own getModelConfig.
GetDimensions ==
    /\ toolPc = "config"
    /\ pc[requestCall] = "idle"
    /\ toolPc' = "lookupDimensions"
    /\ UNCHANGED << toolName, toolArgs, validatedModel, configModel, dimensionsModel,
                    replicateRuns, toolResult >>
    /\ UNCHANGED catalogVars
    /\ UNCHANGED scorerVars
    /\ UNCHANGED agentVars
    /\ UNCHANGED schemaVars

\* generateImage from the dimensions to replicate.run: inputParams, the
\* reference images, the call of the backend.
RunModel ==
    /\ toolPc = "lookupDimensions"
    /\ pc[requestCall] = "done"
    /\ LET model == getModelById(ret[requestCall], requestedId)
           references == referenceImagesOf(toolName, toolArgs.referenceImages)
       IN  /\ dimensionsModel' = model
           /\ IF model = << >>
              THEN /\ toolPc' = "failed"
                   /\ toolResult' = failure("notSupported")
                   /\ UNCHANGED replicateRuns
              ELSE IF referenceError(configModel[1], references) # "none"
              THEN /\ toolPc' = "failed"
                   /\ toolResult' = failure(referenceError(configModel[1], references))
                   /\ UNCHANGED replicateRuns
              ELSE /\ toolPc' = "running"
                   /\ replicateRuns' =
                          Append(replicateRuns,
                                 [model |-> configModel[1].fullName,
                                  input |-> inputParams(configModel[1], toolArgs.prompt,
                                                        getDimensions(model[1], aspectRatioOf(toolArgs)),
                                                        references)])
                   /\ UNCHANGED toolResult
    /\ UNCHANGED << toolName, toolArgs, validatedModel, configModel >>
    /\ UNCHANGED catalogVars
    /\ UNCHANGED scorerVars
    /\ UNCHANGED agentVars
    /\ UNCHANGED schemaVars

\* replicate.run resolves: the result of generateImage, wrapped by
\* executeGenerateImage.
RunResolved ==
    /\ toolPc = "running"
    /\ toolPc' = "returned"
    /\ toolResult' =
           << [success |-> TRUE,
               metadata |->
                   [model |-> requestedId,
                    dimensions |-> getDimensions(dimensionsModel[1], aspectRatioOf(toolArgs)),
                    aspectRatio |-> aspectRatioOf(toolArgs),
                    referenceImages |-> referenceImagesOf(toolName, toolArgs.referenceImages)]] >>
    /\ UNCHANGED << toolName, toolArgs, validatedModel, configModel, dimensionsModel,
                    replicateRuns >>
    /\ UNCHANGED catalogVars
    /\ UNCHANGED scorerVars
    /\ UNCHANGED agentVars
    /\ UNCHANGED schemaVars

\* replicate.run rejects.
RunRejected ==
    /\ toolPc = "running"
    /\ toolPc' = "failed"
    /\ toolResult' = failure("backendError")
    /\ UNCHANGED << toolName, toolArgs, validatedModel, configModel, dimensionsModel,
                    replicateRuns >>
    /\ UNCHANGED catalogVars
    /\ UNCHANGED scorerVars
    /\ UNCHANGED agentVars
    /\ UNCHANGED schemaVars

\* The request has settled and the caller makes the next one.
NextRequest ==
    /\ toolPc \in { "returned", "failed" }
    /\ pc[requestCall] = "idle"
    /\ toolName' = "none"
    /\ toolPc' = "idle"
    /\ toolArgs' = << >>
    /\ validatedModel' = << >>
    /\ configModel' = << >>
    /\ dimensionsModel' = << >>
    /\ replicateRuns' = << >>
    /\ toolResult' = << >>
    /\ UNCHANGED catalogVars
    /\ UNCHANGED scorerVars
    /\ UNCHANGED agentVars
    /\ UNCHANGED schemaVars

ToolNext ==
    \/ \E keyword \in Keywords : ExecuteSearchModels(keyword)
    \/ SearchModels
    \/ \E args \in GenerateArguments : ExecuteGenerateImage(args)
    \/ ValidateReferences
    \/ \E args \in GenerateArguments : CreateGeneration(args)
    \/ GenerateImage
    \/ GetModelConfig
    \/ GetDimensions
    \/ RunModel
    \/ RunResolved
    \/ RunRejected
    \/ NextRequest
    \/ (toolPc \in Awaiting /\ GetImageModels(requestCall, {}))
    \/ \E response \in ApiResponses : FetchResolved(requestCall, response)
    \/ FetchRejected(requestCall)
    \/ (toolPc \notin Awaiting /\ Finish(requestCall))
    \/ Tick

ToolSpec == ToolInit /\ [][ToolNext]_vars

\* The event loop resumes every call whose fetch has settled and hands every
\* result to its caller; nothing obliges the endpoint to answer.
LiveSpec ==
    /\ Spec
    /\ \A c \in Calls :
          /\ WF_vars(\E response \in ApiResponses : FetchResolved(c, response))
          /\ WF_vars(FetchRejected(c))
          /\ WF_vars(Finish(c))

(***************************************************************************)
(* Properties of the catalog and its cache.                                *)
(***************************************************************************)
\* Freshness as section 4.3 states it: data stored and age < 1 hour.
FreshCache == modelsCache.data # Null /\ now - modelsCache.fetchedAt < CacheTtl

unfiltered(c) == options[c] = {}

\* C1: when the live source raises on every call, every getImageModels call
\* without a filter ends by returning the non-empty built-in fallback list;
\* no call ever ends by throwing, and whatever the cache holds, a call whose
\* fetch raised returns the fallback list.
C1_FallbackWhenSourceRaises ==
    /\ \A c \in Calls : pc[c] \in {"idle", "fetching", "done"}
    /\ catalogSource = "down" =>
          \A c \in Calls :
              (pc[c] = "done" /\ unfiltered(c)) =>
                  /\ ret[c] = fallbackModels
                  /\ Len(ret[c]) > 0
    /\ \A c \in Calls :
          (pc[c] = "done" /\ path[c] = "fallback" /\ unfiltered(c)) =>
              ret[c] = fallbackModels

C1_Witness ==
    /\ catalogSource = "down"
    /\ \A c \in Calls : pc[c] = "done" /\ unfiltered(c) /\ ret[c] = fallbackModels
    /\ now > 0

\* C2: a call that finds the cache fresh (data stored and age < TTL) makes
\* no fetch, returns the cached list and leaves the cache as it is; a call
\* that finds no data or age >= TTL makes exactly one fetch.
C2_FreshReadOrOneRefresh ==
    /\ [][\A c \in Calls :
            (pc[c] = "idle" /\ pc'[c] # "idle") =>
                IF FreshCache
                THEN /\ pc'[c] = "done"
                     /\ fetchCount'[c] = 0
                     /\ modelsCache' = modelsCache
                     /\ options'[c] = {} => ret'[c] = listOf(modelsCache.data)
                ELSE /\ pc'[c] = "fetching"
                     /\ fetchCount'[c] = 1]_vars
    /\ [][\A c \in Calls : pc[c] # "idle" => fetchCount'[c] <= fetchCount[c]]_vars

C2_Witness ==
    \E c \in Calls, d \in Calls :
        /\ pc[c] = "done" /\ path[c] = "cache" /\ fetchCount[c] = 0
        /\ now - modelsCache.fetchedAt = CacheTtl - 1
        /\ pc[d] = "done" /\ path[d] = "live" /\ fetchCount[d] = 1

\* C3: a failed refresh leaves data and fetchedAt as they were and returns
\* the fallback list for that call only; the fallback list is never stored
\* in the cache, so while the source keeps failing every call attempts a
\* live refresh again.
C3_FailedRefreshLeavesCache ==
    /\ [][\A c \in Calls :
            (pc[c] = "fetching" /\ path'[c] = "fallback") =>
                /\ modelsCache' = modelsCache
                /\ unfiltered(c) => ret'[c] = fallbackModels
                /\ \A i \in 1..Len(ret'[c]) : arrayIncludes(fallbackModels, ret'[c][i])]_vars
    /\ [](modelsCache.data # stored(fallbackModels))
    /\ [][\A c \in Calls :
            (catalogSource = "down" /\ pc[c] = "idle" /\ pc'[c] # "idle") =>
                pc'[c] = "fetching"]_vars

C3_Witness ==
    \E c \in Calls :
        /\ pc[c] = "done" /\ path[c] = "fallback"
        /\ modelsCache.data # Null
        /\ now - modelsCache.fetchedAt >= CacheTtl

\* C4: the cache is never partially updated: every step that changes it
\* installs, at once, the list of one fetch together with the time of that
\* step, so the cache is always the empty cache or the complete pair of one
\* successful refresh.
C4_CacheSwappedWhole ==
    [][modelsCache' # modelsCache =>
          \E c \in Calls, response \in ApiResponses :
              /\ pc[c] = "fetching" /\ pc'[c] = "done"
              /\ modelsCache' = [data |-> stored(fetched[response]),
                                 fetchedAt |-> now',
                                 ttl |-> CacheTtl]]_vars

\* Two refreshes overlapped and the later one replaced what the earlier
\* one had stored.
C4_Witness ==
    \E c \in Calls, d \in Calls :
        /\ pc[c] = "done" /\ path[c] = "live" /\ unfiltered(c)
        /\ pc[d] = "done" /\ path[d] = "live" /\ unfiltered(d)
        /\ modelsCache.data # Null
        /\ ret[c] # listOf(modelsCache.data)
        /\ ret[d] = listOf(modelsCache.data)
        /\ modelsCache.fetchedAt > 0

\* C5: at most one live refresh is in progress at any moment.
C5_AtMostOneRefresh ==
    Cardinality({c \in Calls : pc[c] = "fetching"}) <= 1

\* C6: every getImageModels call eventually returns, also when the live
\* source never answers.
C6_EveryCallReturns ==
    \A c \in Calls : (pc[c] = "fetching") ~> (pc[c] = "done")

\* The list a completing call resolved before filtering: the cache as the
\* call found it, the list it has just fetched, or the fallback list.
resolvedBy(kind, cacheBefore, cacheAfter) ==
    IF kind = "cache" THEN listOf(cacheBefore.data)
    ELSE IF kind = "live" THEN listOf(cacheAfter.data)
    ELSE fallbackModels

keptBy(resolved, opts) ==
    IF opts = {} \/ opts = {0} THEN resolved
    ELSE IF opts = {1} THEN SelectSeq(resolved, LAMBDA m : m.capabilities.supportsSingleReference)
    ELSE SelectSeq(resolved, LAMBDA m : m.capabilities.supportsMultipleReferences)

\* C7: the referenceImageCount filter is applied to the resolved catalog
\* (cache, fresh list or fallback): absent or 0 gives the whole catalog, 1
\* exactly the models with supportsSingleReference, more than 1 exactly the
\* models with supportsMultipleReferences.
C7_ReferenceFilterAfterResolution ==
    [][\A c \in Calls :
          (pc[c] # "done" /\ pc'[c] = "done") =>
              ret'[c] = keptBy(resolvedBy(path'[c], modelsCache, modelsCache'), options'[c])]_vars

\* A catalog of three models of which one supports a single reference.
C7_Witness ==
    \E c \in Calls :
        /\ pc[c] = "done" /\ path[c] = "live" /\ options[c] = {1}
        /\ modelsCache.data # Null
        /\ Len(listOf(modelsCache.data)) = 3
        /\ Len(ret[c]) = 1

(***************************************************************************)
(* Properties of the scorer.                                               *)
(***************************************************************************)
\* C8: filterAndScoreModels returns at most limit models, for every
\* catalog, every requirements object and every limit >= 0.
C8_LimitRespected ==
    (phase = "returned" /\ limit >= 0) => Len(topModels) <= limit

\* The limit cut the list: more models survived than were returned.
C8_Witness ==
    /\ phase = "returned"
    /\ limit > 0
    /\ Len(topModels) = limit
    /\ Len(scored) > limit

catalogIndex(model) == CHOOSE i \in 1..Len(allModels) : allModels[i] = model

survivors == { i \in 1..Len(allModels) : passesHardFilters(allModels[i], requirements) }

\* C9: the output is the survivors of the hard filters in descending order
\* of score, models of equal score in catalog order, cut to limit.
C9_SortedStableTruncated ==
    (phase = "returned" /\ Len(allModels) > 0) =>
        /\ Len(scored) = Cardinality(survivors)
        /\ \A i \in survivors : \E j \in 1..Len(scored) : scored[j].model = allModels[i]
        /\ \A j \in 1..Len(scored) :
              scored[j]._score = scoreModel(scored[j].model, requirements).score
        /\ \A i, j \in 1..Len(scored) :
              i < j =>
                  \/ scored[i]._score > scored[j]._score
                  \/ /\ scored[i]._score = scored[j]._score
                     /\ catalogIndex(scored[i].model) < catalogIndex(scored[j].model)
        /\ Len(topModels) = min(limit, Len(scored))
        /\ \A i \in 1..Len(topModels) : topModels[i] = scored[i].model

\* Two models of equal score are returned, the flux-schnell summary listed
\* before the flux-dev one.
C9_Witness ==
    /\ phase = "returned"
    /\ Len(topModels) = 2
    /\ scored[1]._score = scored[2]._score
    /\ topModels[1] = SummarySchnell
    /\ topModels[2] = SummaryFluxDev

countFor(req) == Len(filterAndScoreModels(allModels, req, limit))

TriedRatios == {"16:9", "1:1"}

addingRatioNeverAdds ==
    requirements.aspectRatio = << >> =>
        \A ratio \in TriedRatios :
            countFor([requirements EXCEPT !.aspectRatio = << ratio >>]) <= Len(topModels)

addingReferencesNeverAdds ==
    requirements.needsReferenceImages # << TRUE >> =>
        countFor([requirements EXCEPT !.needsReferenceImages = << TRUE >>]) <= Len(topModels)

\* C10 as stated: setting needsReferenceImages to true, or setting an
\* aspectRatio, never makes filterAndScoreModels return more candidates.
C10_FilterMonotone ==
    phase = "returned" => (addingRatioNeverAdds /\ addingReferencesNeverAdds)

everyReferenceModelTakesText ==
    \A i \in 1..Len(allModels) :
        acceptsReferences(allModels[i]) => allModels[i].capabilities.textToImage

\* C10, amended: setting an aspectRatio never makes filterAndScoreModels
\* return more candidates; setting needsReferenceImages to true replaces
\* the textToImage filter by the reference filter, and never returns more
\* candidates when every model of the catalog that accepts reference
\* images also has textToImage.
C10_RatioMonotone ==
    phase = "returned" =>
        /\ addingRatioNeverAdds
        /\ everyReferenceModelTakesText => addingReferencesNeverAdds

\* Setting an aspectRatio dropped a candidate, and setting
\* needsReferenceImages dropped one too.
C10_Witness ==
    /\ phase = "returned"
    /\ requirements.aspectRatio = << >>
    /\ requirements.needsReferenceImages # << TRUE >>
    /\ everyReferenceModelTakesText
    /\ Len(topModels) = 2
    /\ countFor([requirements EXCEPT !.aspectRatio = << "1:1" >>]) = 1
    /\ countFor([requirements EXCEPT !.needsReferenceImages = << TRUE >>]) = 1

\* C11: every model returned passes the reference/text hard filter: with
\* needsReferenceImages true it has supportsReferenceImages or imageToImage,
\* otherwise it has textToImage; with needsReferenceImages true and a catalog
\* in which no model accepts an image the result is empty.
C11_ReferenceTextFilter ==
    phase = "returned" =>
        /\ \A i \in 1..Len(topModels) :
              IF truthyFlag(requirements.needsReferenceImages)
              THEN acceptsReferences(topModels[i])
              ELSE topModels[i].capabilities.textToImage
        /\ (/\ truthyFlag(requirements.needsReferenceImages)
            /\ \A i \in 1..Len(allModels) : ~acceptsReferences(allModels[i]))
               => topModels = << >>

\* References are needed, the catalog has two text-only models, the limit
\* is positive and nothing is returned.
C11_Witness ==
    /\ phase = "returned"
    /\ truthyFlag(requirements.needsReferenceImages)
    /\ Len(allModels) = 2
    /\ \A i \in 1..Len(allModels) : ~acceptsReferences(allModels[i])
    /\ limit > 0
    /\ topModels = << >>

\* The models the first pass kept are the models of scored.
keptByFilter(model) == \E j \in 1..Len(scored) : scored[j].model = model

\* Rules 1 and 2 of the hard filters.
meetsReferenceRule(model) ==
    IF truthyFlag(requirements.needsReferenceImages)
    THEN acceptsReferences(model)
    ELSE model.capabilities.textToImage

\* Rule 3 as stated: a ratio is requested and the model declares a
\* non-empty list holding neither "custom" nor the requested ratio.
dropsByDeclaredRatios(model) ==
    /\ truthyString(requirements.aspectRatio)
    /\ has(model.capabilities, "supportedAspectRatios")
    /\ Len(model.capabilities.supportedAspectRatios) > 0
    /\ ~arrayIncludes(model.capabilities.supportedAspectRatios, "custom")
    /\ ~arrayIncludes(model.capabilities.supportedAspectRatios, requirements.aspectRatio[1])

\* C12: the aspect-ratio hard filter drops a model if and only if a ratio
\* is requested and the model's supportedAspectRatios list is non-empty and
\* holds neither "custom" nor the requested ratio; a model with an empty or
\* undeclared list is never dropped by it.
C12_AspectRatioFilter ==
    phase = "returned" =>
        \A i \in 1..Len(allModels) :
            meetsReferenceRule(allModels[i]) =>
                (~keptByFilter(allModels[i]) <=> dropsByDeclaredRatios(allModels[i]))

\* preferredModel is a case-insensitive substring of the model's id, name,
\* owner or fullName.
matchesPreferred(model) ==
    /\ truthyString(requirements.preferredModel)
    /\ \E text \in { model.id, model.name, model.owner, model.fullName } :
          includes(toLowerCase(text), toLowerCase(requirements.preferredModel[1]))

onlyMatch(j) ==
    /\ matchesPreferred(scored[j].model)
    /\ \A k \in 1..Len(scored) : k # j => ~matchesPreferred(scored[k].model)

\* The score of a model under the same requirements without preferredModel.
scoreWithoutPreference(model) ==
    scoreModel(model, [requirements EXCEPT !.preferredModel = << >>]).score

\* C13 as stated: when preferredModel matches exactly one surviving model,
\* that model has the +100 bonus and is ranked first, whatever the other
\* signals are.
C13_PreferredRanksFirst ==
    phase = "returned" =>
        \A j \in 1..Len(scored) :
            onlyMatch(j) =>
                /\ scored[j]._score = scoreWithoutPreference(scored[j].model) + 100
                /\ j = 1
                /\ limit > 0 => topModels[1] = scored[j].model

\* C13, amended: when preferredModel matches exactly one surviving model,
\* that model's score is its score without the preference plus 100 and no
\* other candidate gets the bonus; it is ranked first when no other
\* candidate's score exceeds its score without the bonus by 100 or more.
C13_PreferredBonus ==
    phase = "returned" =>
        \A j \in 1..Len(scored) :
            onlyMatch(j) =>
                /\ scored[j]._score = scoreWithoutPreference(scored[j].model) + 100
                /\ \A k \in 1..Len(scored) :
                      k # j => scored[k]._score = scoreWithoutPreference(scored[k].model)
                /\ (\A k \in 1..Len(scored) :
                        k # j => scored[k]._score - scoreWithoutPreference(scored[j].model) < 100)
                      => /\ j = 1
                         /\ limit > 0 => topModels[1] = scored[j].model

\* The bonus decided the order: the only matching model is returned first
\* and the other candidate has the higher score without the bonus.
C13_Witness ==
    /\ phase = "returned"
    /\ Len(scored) = 2
    /\ onlyMatch(1)
    /\ scoreWithoutPreference(scored[1].model) < scored[2]._score
    /\ limit > 0
    /\ topModels[1] = scored[1].model

\* The accumulator a signal starts from.
popularityOnly(model) == [score |-> popularityScore(model), reasons |-> << >>]

\* The signals and the filter of the seven fields other than
\* needsReferenceImages leave score, reasons and survival alone when their
\* field is absent.
otherFieldsNeutral(model) ==
    LET a0 == popularityOnly(model)
        req == requirements
    IN  /\ req.preferredModel = << >> => scorePreferred(a0, model, req) = a0
        /\ req.minQuality = << >> => scoreQuality(a0, model, req) = a0
        /\ req.styleFocus = << >> => scoreStyle(a0, model, req) = a0
        /\ req.speedPreference = << >> => scoreSpeed(a0, model, req) = a0
        /\ req.useCase = << >> =>
              /\ scoreBestFor(a0, model, req) = a0
              /\ scoreNotGoodFor(a0, model, req) = a0
        /\ req.specialNeeds = << >> => scoreSpecialNeeds(a0, model, req) = a0
        /\ req.aspectRatio = << >> =>
              /\ scoreAspectRatio(a0, model, req) = a0
              /\ passesHardFilters(model, req) <=> meetsReferenceRule(model)

\* An absent needsReferenceImages neither scores nor drops.
referenceNeutral(model) ==
    requirements.needsReferenceImages = << >> =>
        /\ scoreReference(popularityOnly(model), model, requirements) = popularityOnly(model)
        /\ requirements.aspectRatio = << >> => keptByFilter(model)

\* An absent needsReferenceImages is treated as false.
absentReferenceIsFalse(model) ==
    requirements.needsReferenceImages = << >> =>
        LET asFalse == [requirements EXCEPT !.needsReferenceImages = << FALSE >>]
        IN  /\ scoreModel(model, requirements) = scoreModel(model, asFalse)
            /\ passesHardFilters(model, requirements) <=> passesHardFilters(model, asFalse)
            /\ keptByFilter(model) => model.capabilities.textToImage
            /\ scoreReference(popularityOnly(model), model, requirements).score =
                   popularityScore(model) + (IF model.capabilities.textToImage THEN 10 ELSE 0)

\* C14 as stated: every absent requirements field, needsReferenceImages
\* included, adds nothing to and subtracts nothing from the score and does
\* not drop the model.
C14_AbsentFieldsNeutral ==
    phase = "returned" =>
        \A i \in 1..Len(allModels) :
            otherFieldsNeutral(allModels[i]) /\ referenceNeutral(allModels[i])

\* C14, amended: an absent preferredModel, minQuality, styleFocus,
\* speedPreference, useCase, specialNeeds or aspectRatio adds nothing,
\* subtracts nothing and drops nothing; an absent needsReferenceImages is
\* the same as false: models without textToImage are dropped and models
\* with textToImage get +10.
C14_AbsentNeutralExceptReference ==
    phase = "returned" =>
        /\ \A i \in 1..Len(allModels) :
              otherFieldsNeutral(allModels[i]) /\ absentReferenceIsFalse(allModels[i])
        /\ requirements = noRequirements =>
              \A j \in 1..Len(scored) :
                  scored[j]._score = popularityScore(scored[j].model) + 10

\* An empty requirements object against two text-to-image models: both
\* are kept, each with its popularity term and the text-to-image 10.
C14_Witness ==
    /\ phase = "returned"
    /\ requirements = noRequirements
    /\ Len(allModels) = 2
    /\ Len(scored) = 2
    /\ limit = 2
    /\ \A j \in 1..2 : scored[j]._score = popularityScore(scored[j].model) + 10
    /\ Len(topModels) = 2

\* The entries of styleFocus that match an entry of the model's
\* styleStrengths, as positions in styleFocus.
matchedStylePositions(model) ==
    LET focus == requirements.styleFocus[1]
        strengths == summaryList(model, "styleStrengths")
    IN  { i \in 1..Len(focus) :
            \E k \in 1..Len(strengths) : matchesEitherWay(strengths[k], focus[i]) }

styleDelta(model) ==
    scoreStyle(popularityOnly(model), model, requirements).score - popularityScore(model)

\* C15: with a non-empty styleFocus scoreModel adds 15 for each entry that
\* matches an entry of the model's styleStrengths and subtracts 10 when no
\* entry matches, also when the model declares no styleStrengths.
C15_StyleScoring ==
    (phase = "returned" /\ nonEmptyList(requirements.styleFocus)) =>
        \A i \in 1..Len(allModels) :
            styleDelta(allModels[i]) =
                IF matchedStylePositions(allModels[i]) = {} THEN -10
                ELSE 15 * Cardinality(matchedStylePositions(allModels[i]))

\* C16: each candidate returned carries its score and its list of reasons
\* (the fields _score and _scoreReasons computed for it), the reasons in the
\* order the signals were evaluated.
C16_ScoreAndReasonsReturned ==
    phase = "returned" =>
        \A i \in 1..Len(topModels) :
            /\ has(topModels[i], "_score")
            /\ has(topModels[i], "_scoreReasons")
            /\ topModels[i]._score = scoreModel(scored[i].model, requirements).score
            /\ topModels[i]._scoreReasons = scoreModel(scored[i].model, requirements).reasons

(***************************************************************************)
(* Properties of the schema extractor and the capability classifiers.      *)
(***************************************************************************)
\* C17: for every input (null, no openapi schema, missing or malformed
\* properties, a null property value, a required field that is no array)
\* extractSimplifiedSchema returns a mapping, possibly empty, over declared
\* property names, and never throws.
C17_ExtractionTotal ==
    schemaPhase # "raw" =>
        /\ extractOutcome = "returned"
        /\ DOMAIN inputSchema \subseteq propertyNames(modelSchema)
        /\ \A key \in DOMAIN inputSchema :
              {"type", "description", "required"} \subseteq DOMAIN inputSchema[key]
        /\ modelSchema.kind # "input" => DOMAIN inputSchema = {}

\* The second property has a null value: the mapping built from the first
\* one is returned.
C17_Witness ==
    /\ schemaPhase = "catalogued"
    /\ modelSchema.kind = "input"
    /\ modelSchema.properties = << << PropPrompt, PropNull >> >>
    /\ modelSchema.required = [kind |-> "array", items |-> << "prompt" >>]
    /\ extractOutcome = "returned"
    /\ DOMAIN inputSchema = {"prompt"}
    /\ inputSchema["prompt"].required = TRUE

\* The raw property of a key of the Input schema.
rawValue(key) ==
    LET entries == propertiesOf(modelSchema)[1]
    IN  entries[CHOOSE i \in 1..Len(entries) : entries[i].key = key].value

\* The parameter is named or described as a mask.
namedOrDescribedAsMask(key) ==
    \/ includes(toLowerCase(key), "mask")
    \/ (has(rawValue(key), "description")
            /\ includes(toLowerCase(rawValue(key).description), "mask for inpainting"))

\* Every property was extracted and every image input among them is a mask.
onlyMaskImageInputs ==
    /\ DOMAIN inputSchema = propertyNames(modelSchema)
    /\ \A key \in DOMAIN inputSchema :
          flag(inputSchema[key], "isImageInput") => flag(inputSchema[key], "isMask")

catalogCountsReferences ==
    \/ capabilities[1].supportsSingleReference
    \/ capabilities[1].supportsMultipleReferences
    \/ capabilities[1].supportsImageToImage

summaryCountsReferences ==
    summaryCapabilities[1].supportsReferenceImages \/ summaryCapabilities[1].imageToImage

\* C18: every parameter named or described as a mask gets isMask = true,
\* and a model whose only image inputs are masks counts as supporting
\* reference images in no capability computation: not in the catalog
\* detectCapabilities, not in the summary detectCapabilities, not in the
\* validation of generate_image, not in the choice of the reference field.
C18_MaskExcluded ==
    schemaPhase = "summarised" =>
        /\ \A key \in DOMAIN inputSchema :
              namedOrDescribedAsMask(key) => flag(inputSchema[key], "isMask")
        /\ onlyMaskImageInputs =>
              /\ ~catalogCountsReferences
              /\ ~summaryCountsReferences
              /\ imageInputs(inputSchema) = {}
              /\ referenceField(inputSchema) = "none"

\* C19: the catalog capabilities follow the extracted schema:
\* supportsSingleReference and supportsImageToImage hold iff some parameter
\* has isImageInput and not isMask, supportsMultipleReferences iff some
\* such parameter has type "array".
C19_CapabilitiesFollowSchema ==
    schemaPhase # "raw" =>
        /\ capabilities[1].supportsSingleReference <=> imageInputs(inputSchema) # {}
        /\ capabilities[1].supportsImageToImage <=> imageInputs(inputSchema) # {}
        /\ capabilities[1].supportsMultipleReferences <=>
              \E key \in imageInputs(inputSchema) : inputSchema[key].type = "array"

\* C20: for every input schema, the empty mapping and an absent schema
\* included, the classifiers populate textToImage, imageToImage,
\* supportsSingleReference, supportsMultipleReferences and
\* supportedAspectRatios, and supportedAspectRatios is non-empty.
C20_CapabilityTotality ==
    schemaPhase = "summarised" =>
        /\ {"textToImage", "imageToImage", "supportsSingleReference",
            "supportsMultipleReferences", "supportedAspectRatios"}
              \subseteq (DOMAIN capabilities[1] \cup DOMAIN summaryCapabilities[1])
        /\ Len(summaryCapabilities[1].supportedAspectRatios) > 0

(***************************************************************************)
(* Properties of the tool layer.                                           *)
(***************************************************************************)
\* A generation request has been made.
generating == toolName \in { "generate-image", "create-generation" }

\* The reference images generateImage works with.
suppliedReferences == referenceImagesOf(toolName, toolArgs.referenceImages)

\* C21: whenever reference images are supplied for a model that has no
\* image-accepting field other than masks, the request fails with the
\* does-not-accept-references error and replicate.run is not called, on
\* every path that reaches generateImage with reference images
\* (executeGenerateImage and createGeneration).
C21_ReferencesRejectedWithoutImageField ==
    generating =>
        /\ (/\ validatedModel # << >>
            /\ Len(suppliedReferences) > 0
            /\ imageInputParams(validatedModel[1]) = {})
              => (toolPc = "failed" /\ toolResult = failure("doesNotAcceptReferences"))
        /\ (/\ configModel # << >>
            /\ Len(suppliedReferences) > 0
            /\ imageInputParams(configModel[1]) = {})
              => (replicateRuns = << >> /\ toolPc \notin { "running", "returned" })

\* The image inputs of a model that take one URL.
scalarImageParams(model) == imageInputParams(model) \ arrayImageParams(model)

\* The input of the call of replicate.run has handed value to one of params.
handedTo(params, value) ==
    \E name \in params :
        /\ name \in DOMAIN replicateRuns[1].input
        /\ replicateRuns[1].input[name] = value

\* C22: when reference URLs are supplied, an array-typed image-accepting
\* field receives all of them, a string-typed one receives exactly one, and
\* more than one URL for a model whose image-accepting fields are all
\* string-typed raises the too-many-reference-images error before
\* replicate.run is called.
C22_ReferenceFieldSelection ==
    (generating /\ configModel # << >> /\ Len(suppliedReferences) > 0) =>
        /\ (arrayImageParams(configModel[1]) = {} /\ Len(suppliedReferences) > 1)
              => replicateRuns = << >>
        /\ (replicateRuns # << >> /\ arrayImageParams(configModel[1]) # {})
              => handedTo(arrayImageParams(configModel[1]), suppliedReferences)
        /\ (replicateRuns # << >> /\ arrayImageParams(configModel[1]) = {}
                /\ scalarImageParams(configModel[1]) # {})
              => (/\ Len(suppliedReferences) = 1
                  /\ handedTo(scalarImageParams(configModel[1]), suppliedReferences[1]))

\* The requested ratio w:h around the base size: the longer side is 1024
\* and the shorter one round(1024 * min(w, h) / max(w, h)).
aroundBaseSize(aspectRatio) ==
    LET w == Number(split(aspectRatio)[1])[1]
        h == Number(split(aspectRatio)[2])[1]
    IN  [width |-> IF w >= h THEN 1024 ELSE roundScaled(1024, w, h),
         height |-> IF h >= w THEN 1024 ELSE roundScaled(1024, h, w)]

\* The dimensions that resolve the ratio on the model getDimensions read.
resolvesRatio(dimensions, aspectRatio) ==
    \/ dimensions = aroundBaseSize(aspectRatio)
    \/ (aspectRatio \in DOMAIN dimensionsModel[1].aspectRatios
            /\ dimensions = dimensionsModel[1].aspectRatios[aspectRatio])

\* C23: the width and height sent to the backend are the model's table
\* entry for the requested ratio (default 1:1) or are computed around the
\* base size 1024, and the dimensions returned match the aspectRatio
\* reported in the metadata of the result.
C23_DimensionsPreserveRatio ==
    (generating /\ replicateRuns # << >>) =>
        /\ resolvesRatio([width |-> replicateRuns[1].input.width,
                          height |-> replicateRuns[1].input.height],
                         aspectRatioOf(toolArgs))
        /\ toolPc = "returned" =>
               /\ toolResult[1].metadata.aspectRatio = aspectRatioOf(toolArgs)
               /\ resolvesRatio(toolResult[1].metadata.dimensions,
                                toolResult[1].metadata.aspectRatio)

\* The tags of a catalog entry; the fallback entries have none.
tagsOf(model) == IF has(model, "tags") THEN model.tags ELSE << >>

\* The keyword occurs in the name, the description or a tag, whatever the
\* case.
containsKeyword(model, keyword) ==
    \/ includes(toLowerCase(model.name), toLowerCase(keyword))
    \/ includes(toLowerCase(model.description), toLowerCase(keyword))
    \/ \E i \in 1..Len(tagsOf(model)) :
           includes(toLowerCase(tagsOf(model)[i]), toLowerCase(keyword))

\* C24: for every catalog state (fresh cache or fallback list) and every
\* keyword, searchModels returns a list, and the list holds exactly the
\* models whose name, description or some tag contains the keyword
\* case-insensitively.
C24_SearchReturnsMatches ==
    (toolName = "search-models" /\ toolPc \notin { "idle", "searching" }) =>
        /\ toolPc = "returned"
        /\ pc[requestCall] = "done" =>
               toolResult[1].models =
                   SelectSeq(ret[requestCall],
                             LAMBDA model : containsKeyword(model, toolArgs.keyword))

(***************************************************************************)
(* Properties of the cached list and of the capabilities in it.            *)
(***************************************************************************)
\* The records of the collections the endpoint answers with.
SourceRecords == UNION { { response[i] : i \in 1..Len(response) } : response \in ApiResponses }

\* The records that are official and recognized as image generation
\* models.
officialImageRecords ==
    { record \in SourceRecords : record.is_official = TRUE /\ isImageGenerationModel(record) }

\* The descriptor was assembled from such a record.
fromOfficialImageRecord(entry) ==
    \E record \in officialImageRecords :
        /\ entry.name = record.name
        /\ entry.runCount = record.run_count
        /\ entry.isOfficial = TRUE

nonIncreasingRunCount(list) ==
    \A i, j \in 1..Len(list) : i < j => list[i].runCount >= list[j].runCount

\* The lists a refresh can install: one per answer of the endpoint.
refreshedLists == { fetched[response] : response \in ApiResponses }

\* C25: after any sequence of refreshes a non-empty cached catalog holds
\* only entries whose source record was official and recognized as an image
\* generation model, is sorted by non-increasing runCount, and is as a
\* whole the list one refresh produced from one answer of the endpoint.
C25_CachedCatalogWellFormed ==
    (modelsCache.data # Null /\ listOf(modelsCache.data) # << >>) =>
        /\ \A i \in 1..Len(listOf(modelsCache.data)) :
               fromOfficialImageRecord(listOf(modelsCache.data)[i])
        /\ nonIncreasingRunCount(listOf(modelsCache.data))
        /\ listOf(modelsCache.data) \in refreshedLists

\* A refresh at the end of the first TTL period has installed the three
\* descriptors of a collection of five records, one of them unofficial and
\* one an upscaler.
C25_Witness ==
    /\ modelsCache.data # Null
    /\ Len(listOf(modelsCache.data)) = 3
    /\ modelsCache.fetchedAt = CacheTtl
    /\ \E c \in Calls : pc[c] = "done" /\ path[c] = "live"

\* The lists getImageModels can filter in this state: the fallback list and
\* the cached list, if there is one.
catalogLists ==
    { fallbackModels } \cup (IF modelsCache.data = Null THEN {} ELSE { listOf(modelsCache.data) })

impliedCapabilities(model) ==
    /\ model.capabilities.supportsMultipleReferences => model.capabilities.supportsSingleReference
    /\ model.capabilities.supportsSingleReference => model.capabilities.supportsImageToImage

\* C28: in every catalog state (cached list or fallback list) each model's
\* capabilities satisfy supportsMultipleReferences => supportsSingleReference
\* => supportsImageToImage (as do the capabilities detected for any set of
\* property names), and on one catalog every model returned for
\* referenceImageCount > 1 is also returned for referenceImageCount = 1.
C28_CapabilityImplications ==
    /\ \A props \in SUBSET { "prompt", "image", "images", "image_input", "mask" } :
           impliedCapabilities([capabilities |-> detectCapabilities(props)])
    /\ \A list \in catalogLists :
           /\ \A i \in 1..Len(list) : impliedCapabilities(list[i])
           /\ \A i \in 1..Len(applyFilters(list, {2})) :
                  arrayIncludes(applyFilters(list, {1}), applyFilters(list, {2})[i])

\* The cached list has a model for several references and more models for
\* one reference.
C28_Witness ==
    /\ modelsCache.data # Null
    /\ Len(applyFilters(listOf(modelsCache.data), {2})) > 0
    /\ Len(applyFilters(listOf(modelsCache.data), {2}))
           < Len(applyFilters(listOf(modelsCache.data), {1}))
    /\ Len(applyFilters(listOf(modelsCache.data), {1})) < Len(listOf(modelsCache.data))

\* The input of the call of replicate.run carries every supplied URL in an
\* image input of the model that is not a mask.
carriesReferences(model) ==
    \E name \in imageInputParams(model) \cap DOMAIN replicateRuns[1].input :
        IF model.inputSchema[name].type = "array"
        THEN replicateRuns[1].input[name] = suppliedReferences
        ELSE /\ Len(suppliedReferences) = 1
             /\ replicateRuns[1].input[name] = suppliedReferences[1]

\* C29: reference images are never silently dropped.  Whenever
\* executeGenerateImage has accepted a request with at least one reference
\* URL and the backend is called, the input of the call contains every
\* supplied URL in a reference-image field of the model; a request whose
\* validation does not pass fails with an error.
C29_ReferencesNeverDropped ==
    (toolName = "generate-image" /\ validatedModel # << >> /\ Len(suppliedReferences) > 0) =>
        /\ replicateRuns # << >> => carriesReferences(validatedModel[1])
        /\ validateReferences(validatedModel[1], suppliedReferences) # "none"
               => (toolPc = "failed" /\ replicateRuns = << >>)

\* C30: within one executeGenerateImage call the descriptor that was
\* validated against the reference images is the descriptor generateImage
\* uses for the parameter mapping and the one getDimensions uses for the
\* dimensions, even if the cache expires or a refresh succeeds or fails
\* between the lookups of the call.
C30_OneDescriptorPerCall ==
    toolName = "generate-image" =>
        /\ toolPc \in { "config", "lookupDimensions", "running", "returned" }
               => configModel = validatedModel
        /\ toolPc \in { "running", "returned" }
               => dimensionsModel = validatedModel

(***************************************************************************)
(* Part 5: generateWithGeminiOrchestrator, the three-phase pipeline of the *)
(* Gemini orchestrator service: checkContentSafety, refinePromptWithGemini *)
(* and the tool loop of generateImageWithAgent.  Each action runs from one *)
(* await of the request to its next one.                                   *)
(***************************************************************************)
MaxFunctionCalls == 2   \* function calls in one response of the agent LLM

minOf(S) == CHOOSE x \in S : \A y \in S : x <= y
maxOf(S) == CHOOSE x \in S : \A y \in S : y <= x
positions(s, c) == { i \in 1..Len(s) : SubSeq(s, i, i) = c }

\* functionCall.name.replace(/_/g, '-')
RECURSIVE replaceUnderscores(_)
replaceUnderscores(s) ==
    IF Len(s) = 0 THEN ""
    ELSE (IF SubSeq(s, 1, 1) = "_" THEN "-" ELSE SubSeq(s, 1, 1))
             \o replaceUnderscores(SubSeq(s, 2, Len(s)))

\* responseText.match(/\{[\s\S]*\}/): from the first opening brace to the
\* last closing brace, << >> (null) when there is no such pair.
jsonMatch(responseText) ==
    LET opens == positions(responseText, "{")
        closes == positions(responseText, "}")
    IN  IF opens = {} \/ ~ \E j \in closes : j > minOf(opens)
        THEN << >>
        ELSE << SubSeq(responseText, minOf(opens), maxOf(closes)) >>

\* White space around a JSON token.
RECURSIVE trim(_)
trim(s) ==
    IF Len(s) = 0 THEN ""
    ELSE IF SubSeq(s, 1, 1) = " " THEN trim(SubSeq(s, 2, Len(s)))
    ELSE IF SubSeq(s, Len(s), Len(s)) = " " THEN trim(SubSeq(s, 1, Len(s) - 1))
    ELSE s

\* The pieces of s between the occurrences of the separator.
RECURSIVE pieces(_, _)
pieces(s, separator) ==
    IF positions(s, separator) = {} THEN << s >>
    ELSE LET at == minOf(positions(s, separator))
         IN  << SubSeq(s, 1, at - 1) >> \o pieces(SubSeq(s, at + 1, Len(s)), separator)

isQuoted(token) ==
    /\ Len(token) >= 2
    /\ positions(token, "\"") = { 1, Len(token) }

isNumberLiteral(token) ==
    /\ \E i \in 1..Len(token) : isDigit(SubSeq(token, i, i))
    /\ \A i \in 1..Len(token) : isDigit(SubSeq(token, i, i)) \/ SubSeq(token, i, i) = "."
    /\ Cardinality(positions(token, ".")) <= 1

\* A JSON value: its type and the text of its literal.
undefined == [type |-> "undefined", text |-> ""]
booleanValue(b) == [type |-> "boolean", text |-> IF b THEN "true" ELSE "false"]
stringValue(s) == [type |-> "string", text |-> s]
numberValue(s) == [type |-> "number", text |-> s]

\* The value of one literal, << >> when it is not a JSON literal.
jsonValue(token) ==
    IF token \in { "true", "false" } THEN << [type |-> "boolean", text |-> token] >>
    ELSE IF token = "null" THEN << [type |-> "null", text |-> ""] >>
    ELSE IF isQuoted(token) THEN << stringValue(SubSeq(token, 2, Len(token) - 1)) >>
    ELSE IF isNumberLiteral(token) THEN << numberValue(token) >>
    ELSE << >>

\* One "key": value member, << >> when it is not one.
jsonMember(text) ==
    LET colons == positions(text, ":")
        key == trim(SubSeq(text, 1, minOf(colons) - 1))
        value == jsonValue(trim(SubSeq(text, minOf(colons) + 1, Len(text))))
    IN  IF colons = {} THEN << >>
        ELSE IF ~ isQuoted(key) \/ value = << >> THEN << >>
        ELSE << [key |-> SubSeq(key, 2, Len(key) - 1), value |-> value[1]] >>

\* JSON.parse of a flat object (members without nested objects, and without
\* commas or colons inside strings): << object >>, or << >> where JSON.parse
\* throws a SyntaxError.  A repeated key takes its last value.
JSONparse(text) ==
    LET body == trim(SubSeq(text, 2, Len(text) - 1))
        members == [i \in 1..Len(pieces(body, ",")) |-> jsonMember(pieces(body, ",")[i])]
        keys == { members[i][1].key : i \in 1..Len(members) }
    IN  IF body = "" THEN << [k \in {} |-> undefined] >>
        ELSE IF \E i \in 1..Len(members) : members[i] = << >> THEN << >>
        ELSE << [k \in keys |->
                    members[maxOf({ i \in 1..Len(members) : members[i][1].key = k })][1].value] >>

\* object[key]
member(object, key) == IF key \in DOMAIN object THEN object[key] ELSE undefined

\* The truthiness of a JSON value.
truthy(value) ==
    CASE value.type = "boolean" -> value.text = "true"
      [] value.type = "string" -> value.text # ""
      [] value.type = "number" ->
            \E i \in 1..Len(value.text) :
                isDigit(SubSeq(value.text, i, i)) /\ SubSeq(value.text, i, i) # "0"
      [] OTHER -> FALSE

\* The object checkContentSafety returns when it fails safe.
failSafe(reason) ==
    [k \in { "safe", "reason", "category", "confidence" } |->
        CASE k = "safe" -> booleanValue(FALSE)
          [] k = "reason" -> stringValue(reason)
          [] k = "category" -> stringValue("error")
          [] k = "confidence" -> numberValue("1.0")]

\* checkContentSafety once its generateContent call has settled.
checkContentSafety(call) ==
    IF call.kind = "rejects" THEN failSafe("Error during safety verification")
    ELSE IF jsonMatch(call.text) = << >> THEN failSafe("Unable to verify content safety")
    ELSE IF JSONparse(jsonMatch(call.text)[1]) = << >>
         THEN failSafe("Error during safety verification")
    ELSE JSONparse(jsonMatch(call.text)[1])[1]

\* The handler executeTool dispatches a tool name to.
executeTool(name) ==
    CASE name = "list-models" -> "executeListModels"
      [] name = "search-models" -> "executeSearchModels"
      [] name = "get-model" -> "executeGetModel"
      [] name = "generate-image" -> "executeGenerateImage"
      [] name = "image-generation-workflow" -> "executeGenerateImage"
      [] OTHER -> "throws"

maxIterations == 10

\* The answers of the safety LLM.
SafetyTexts ==
    { "{\"safe\": true, \"category\": \"safe\"}",
      "{\"safe\": false, \"category\": \"nsfw\"}",
      "{\"safe\": \"false\", \"category\": \"nsfw\"}",
      "{\"category\": \"violence\"}",
      "{\"safe\": null}",
      "Safe. {\"safe\": true} ",
      "{safe: true}",
      "I cannot review this." }

\* How the safety call goes: no API key is configured, generateContent
\* rejects, or it resolves with a text.
SafetyCalls ==
    { [kind |-> "noApiKey", text |-> ""], [kind |-> "rejects", text |-> ""] }
        \cup { [kind |-> "responds", text |-> t] : t \in SafetyTexts }

\* A function call of the agent LLM: its name, and whether the handler it
\* reaches resolves with success: true for its arguments.
FunctionCalls ==
    { [name |-> "generate_image", succeeds |-> TRUE],
      [name |-> "generate_image", succeeds |-> FALSE],
      [name |-> "list_models", succeeds |-> TRUE],
      [name |-> "image_generation_workflow", succeeds |-> TRUE],
      [name |-> "get_price", succeeds |-> FALSE] }

AgentInit ==
    /\ CatalogInit
    /\ catalogSource = "down"
    /\ ScorerIdle
    /\ SchemaIdle
    /\ ToolIdle
    /\ orchPc = "idle"
    /\ safetyCall \in SafetyCalls
    /\ llmCalls \in listsOver(FunctionCalls, MaxFunctionCalls) \ { << >> }
    /\ started = << >>
    /\ safetyResult = << >>
    /\ functionCalls = << >>
    /\ callIndex = 0
    /\ iterationCount = 0
    /\ toolResults = << >>
    /\ generations = 0
    /\ orchResult = << >>

restUnchanged ==
    /\ UNCHANGED catalogVars
    /\ UNCHANGED scorerVars
    /\ UNCHANGED schemaVars
    /\ UNCHANGED toolVars

\* What generateImageWithAgent returns after its loop.
extractResult(results) ==
    LET generated == { i \in 1..Len(results) : results[i].name = "generate-image" }
    IN  IF generated # {} /\ results[minOf(generated)].success
        THEN [outcome |-> "returned", success |-> TRUE]
        ELSE [outcome |-> "returned", success |-> FALSE]

\* generateWithGeminiOrchestrator up to the await inside checkContentSafety;
\* getGeminiClient throws when no API key is configured.
GenerateWithGeminiOrchestrator ==
    /\ orchPc = "idle"
    /\ started' = << "safety" >>
    /\ IF safetyCall.kind = "noApiKey"
       THEN /\ orchPc' = "done"
            /\ orchResult' = << [outcome |-> "threw", success |-> FALSE] >>
       ELSE /\ orchPc' = "safety"
            /\ UNCHANGED orchResult
    /\ UNCHANGED << safetyCall, llmCalls, safetyResult, functionCalls, callIndex,
                    iterationCount, toolResults, generations >>
    /\ restUnchanged

\* The safety call settles: checkContentSafety returns, and the orchestrator
\* either returns the policy violation or starts refinePromptWithGemini.
SafetyChecked ==
    /\ orchPc = "safety"
    /\ safetyResult' = << checkContentSafety(safetyCall) >>
    /\ IF ~ truthy(member(checkContentSafety(safetyCall), "safe"))
       THEN /\ orchPc' = "done"
            /\ orchResult' = << [outcome |-> "returned", success |-> FALSE] >>
            /\ UNCHANGED started
       ELSE /\ orchPc' = "refining"
            /\ started' = Append(started, "refine")
            /\ UNCHANGED orchResult
    /\ UNCHANGED << safetyCall, llmCalls, functionCalls, callIndex, iterationCount,
                    toolResults, generations >>
    /\ restUnchanged

\* The refiner call settles: refinePromptWithGemini throws (and the
\* orchestrator with it) or returns, and generateImageWithAgent makes its
\* first generateContent call.
Refined ==
    /\ orchPc = "refining"
    /\ \E refined \in BOOLEAN :
          IF refined
          THEN /\ orchPc' = "agent"
               /\ started' = Append(started, "generate")
               /\ UNCHANGED orchResult
          ELSE /\ orchPc' = "done"
               /\ orchResult' = << [outcome |-> "threw", success |-> FALSE] >>
               /\ UNCHANGED started
    /\ UNCHANGED << safetyCall, llmCalls, safetyResult, functionCalls, callIndex,
                    iterationCount, toolResults, generations >>
    /\ restUnchanged

\* The head of the while loop for a response with the given function calls
\* (<< >> also stands for a response without candidates): the loop goes on
\* to the first executeTool call, or ends and the result is extracted.
LoopHead(count, calls) ==
    IF count < maxIterations /\ calls # << >>
    THEN /\ orchPc' = "tool"
         /\ functionCalls' = calls
         /\ callIndex' = 1
         /\ UNCHANGED orchResult
    ELSE /\ orchPc' = "done"
         /\ functionCalls' = << >>
         /\ callIndex' = 0
         /\ orchResult' = << extractResult(toolResults) >>

\* The first response of the agent LLM arrives.
AgentResponded ==
    /\ orchPc = "agent"
    /\ \E calls \in { << >>, llmCalls } : LoopHead(iterationCount, calls)
    /\ UNCHANGED << safetyCall, llmCalls, started, safetyResult, iterationCount,
                    toolResults, generations >>
    /\ restUnchanged

\* executeTool settles for functionCalls[callIndex]: its result is pushed
\* (nothing is pushed when it throws), a successful generate-image returns
\* at once, otherwise the for loop goes on or the follow-up call is made.
ToolExecuted ==
    /\ orchPc = "tool"
    /\ LET functionCall == functionCalls[callIndex]
           name == replaceUnderscores(functionCall.name)
           handler == executeTool(name)
           success == handler # "throws" /\ functionCall.succeeds
       IN  /\ toolResults' =
                  IF handler = "throws" THEN toolResults
                  ELSE Append(toolResults, [name |-> name, success |-> success])
           /\ generations' =
                  IF handler = "executeGenerateImage" /\ success
                  THEN generations + 1 ELSE generations
           /\ IF name = "generate-image" /\ success
              THEN /\ orchPc' = "done"
                   /\ orchResult' = << [outcome |-> "returned", success |-> TRUE] >>
                   /\ UNCHANGED callIndex
              ELSE /\ orchPc' = IF callIndex < Len(functionCalls) THEN "tool" ELSE "followUp"
                   /\ callIndex' = callIndex + 1
                   /\ UNCHANGED orchResult
    /\ UNCHANGED << safetyCall, llmCalls, started, safetyResult, functionCalls,
                    iterationCount >>
    /\ restUnchanged

\* The follow-up response arrives: iterationCount++, then the loop head.
FollowUpResponded ==
    /\ orchPc = "followUp"
    /\ iterationCount' = iterationCount + 1
    /\ \E calls \in { << >>, llmCalls } : LoopHead(iterationCount + 1, calls)
    /\ UNCHANGED << safetyCall, llmCalls, started, safetyResult, toolResults,
                    generations >>
    /\ restUnchanged

AgentNext ==
    \/ GenerateWithGeminiOrchestrator
    \/ SafetyChecked
    \/ Refined
    \/ AgentResponded
    \/ ToolExecuted
    \/ FollowUpResponded

AgentSpec == AgentInit /\ [][AgentNext]_vars

(***************************************************************************)
(* Phase order of the orchestrator.                                        *)
(***************************************************************************)
startedPhases == { started[i] : i \in 1..Len(started) }

\* The safety check has completed and its answer says safe: true.
completedSafe ==
    /\ safetyResult # << >>
    /\ member(safetyResult[1], "safe") = booleanValue(TRUE)

\* The safety check errors, or its answer cannot be parsed.
failedSafetyCheck ==
    \/ safetyCall.kind \in { "noApiKey", "rejects" }
    \/ /\ safetyCall.kind = "responds"
       /\ \/ jsonMatch(safetyCall.text) = << >>
          \/ JSONparse(jsonMatch(safetyCall.text)[1]) = << >>

phasesInOrder ==
    \E n \in 0..3 : started = SubSeq(<< "safety", "refine", "generate" >>, 1, n)

\* C26: the phases start in the order safety check, refine, generate;
\* refinement, generation and every tool call are started only after the
\* safety check has completed with safe = true; and a request whose safety
\* check errors or answers something unparsable ends with success = false
\* without refinement having been started.
C26_SafetyGatesThePhases ==
    /\ phasesInOrder
    /\ ( \/ "refine" \in startedPhases
         \/ "generate" \in startedPhases
         \/ toolResults # << >>
         \/ generations > 0 ) => completedSafe
    /\ (failedSafetyCheck /\ orchPc = "done") =>
           /\ orchResult = << [outcome |-> "returned", success |-> FALSE] >>
           /\ "refine" \notin startedPhases

(***************************************************************************)
(* The tool loop of generateImageWithAgent.                                *)
(***************************************************************************)
\* A successful generate-image result is in toolResults.
generatedImage ==
    \E i \in 1..Len(toolResults) :
        toolResults[i].name = "generate-image" /\ toolResults[i].success

\* C27: the tool loop makes at most 10 follow-up LLM rounds, a successful
\* generate-image tool call ends the request at once with success, and no
\* request executes more than one successful image generation, whatever
\* function calls the LLM emits.
C27_OneGenerationPerRequest ==
    /\ iterationCount <= maxIterations
    /\ generatedImage =>
           /\ orchPc = "done"
           /\ orchResult = << [outcome |-> "returned", success |-> TRUE] >>
    /\ generations <= 1

\* The steps the request still has to take, at most: every step lowers it.
variant ==
    LET width == MaxFunctionCalls + 2
        rounds == maxIterations - iterationCount
    IN  CASE orchPc = "idle" -> 11 * width + 4
          [] orchPc = "safety" -> 11 * width + 3
          [] orchPc = "refining" -> 11 * width + 2
          [] orchPc = "agent" -> 11 * width + 1
          [] orchPc = "tool" -> rounds * width + (width - callIndex)
          [] orchPc = "followUp" -> rounds * width + 1
          [] OTHER -> 0

AgentTerminates == [][variant' < variant]_vars

\* Each position but "done" is the guard of one action of AgentNext.
AgentNeverStuck ==
    /\ orchPc \in { "idle", "safety", "refining", "agent", "tool", "followUp", "done" }
    /\ orchPc = "tool" => callIndex \in 1..Len(functionCalls)

====
